---- MODULE Spec2Model ----
(***************************************************************************)
(* Model of the local-poker Texas Hold'em engine: PokerGame (the betting   *)
(* and showdown state machine of src/server/game/Room.js), HandEvaluator   *)
(* and Deck (src/server/game/HandEvaluator.js) and Card (Card.js).         *)
(*                                                                         *)
(* Indexes into the seat list are 0-based as in the JavaScript source; the *)
(* seat list itself is a TLA+ sequence, so seat i is players[i + 1].       *)
(***************************************************************************)
EXTENDS Integers, Sequences, FiniteSets, TLC

\* ------------------------------------------------------------------ bounds

\* Blinds of the table (constructor options of PokerGame), scaled down.
smallBlind == 1
bigBlind == 2

\* Number of hands that may be started on one table.
MaxHands == 2

\* Largest amount submitted with a 'raise'.
MaxAmount == 6

\* Number of decks deck.reset() may leave.
NumShuffles == 2

\* Number of times a seat may disconnect or be removed.
MaxLeaves == 1

\* Largest amount the advisory model may name for a raise.
MaxTuned == 5

\* ------------------------------------------------------------------ cards

\* A card is a number 0..51: (index of the suit in SUITS) * 13 + index of the
\* rank in RANKS, which is the order in which Deck.reset creates the cards.
Cards == 0..51

\* Card.value: RANK_VALUES[rank] = index + 2, so 2..14 with the ace at 14.
CardValue(c) == (c % 13) + 2

CardSuit(c) == c \div 13

\* ------------------------------------------------------------------ helpers

Max2(a, b) == IF a >= b THEN a ELSE b

Min2(a, b) == IF a <= b THEN a ELSE b

RECURSIVE SumSeq(_)
SumSeq(s) == IF s = <<>> THEN 0 ELSE Head(s) + SumSeq(Tail(s))

\* Insert v into the descending sequence s, after the elements >= v.
RECURSIVE InsertDesc(_, _)
InsertDesc(v, s) ==
    IF s = <<>> THEN <<v>>
    ELSE IF Head(s) >= v THEN <<Head(s)>> \o InsertDesc(v, Tail(s))
    ELSE <<v>> \o s

\* values.sort((a, b) => b - a)
RECURSIVE SortDesc(_)
SortDesc(s) == IF s = <<>> THEN <<>> ELSE InsertDesc(Head(s), SortDesc(Tail(s)))

\* ------------------------------------------------------------------ HandEvaluator

ROYAL_FLUSH == 10
STRAIGHT_FLUSH == 9
FOUR_OF_A_KIND == 8
FULL_HOUSE == 7
FLUSH == 6
STRAIGHT == 5
THREE_OF_A_KIND == 4
TWO_PAIR == 3
ONE_PAIR == 2
HIGH_CARD == 1

\* compareScores(a, b): the first differing position decides, a missing
\* position counts as 0; > 0 when a wins, < 0 when b wins, 0 on a tie.
RECURSIVE CompareFrom(_, _, _)
CompareFrom(a, b, i) ==
    IF i > Max2(Len(a), Len(b)) THEN 0
    ELSE LET va == IF i <= Len(a) THEN a[i] ELSE 0
             vb == IF i <= Len(b) THEN b[i] ELSE 0
         IN IF va # vb THEN va - vb ELSE CompareFrom(a, b, i + 1)

compareScores(a, b) == CompareFrom(a, b, 1)

\* The rank groups of five sorted values: <<value, count>> pairs sorted by
\* count descending, then value descending.
RankGroups(values) ==
    LET vals == {values[i] : i \in 1..Len(values)}
        cnt(v) == Cardinality({i \in 1..Len(values) : values[i] = v})
        key(v) == cnt(v) * 100 + v
        keys == [i \in 1..Cardinality(vals) |->
                    key(CHOOSE v \in vals :
                        Cardinality({w \in vals : key(w) > key(v)}) = i - 1)]
    IN [i \in 1..Len(keys) |-> <<keys[i] % 100, keys[i] \div 100>>]

\* A classification that ranks the wheel by its ace.
Score5AceHighWheel(values, groups, isFlush) ==
    LET isWheel == values = <<14, 5, 4, 3, 2>>
        isStraight == isWheel \/ (values[1] - values[5] = 4
                                  /\ Cardinality({values[i] : i \in 1..5}) = 5)
        gv(i) == groups[i][1]
        gc(i) == groups[i][2]
        high == values[1]
        kickers == SortDesc([i \in 1..(Len(groups) - 1) |-> gv(i + 1)])
    IN IF isFlush /\ isStraight /\ values[1] = 14 /\ values[5] = 10
         THEN <<ROYAL_FLUSH>>
       ELSE IF isFlush /\ isStraight THEN <<STRAIGHT_FLUSH, high>>
       ELSE IF gc(1) = 4 THEN <<FOUR_OF_A_KIND, gv(1), gv(2)>>
       ELSE IF gc(1) = 3 /\ gc(2) = 2 THEN <<FULL_HOUSE, gv(1), gv(2)>>
       ELSE IF isFlush THEN <<FLUSH>> \o values
       ELSE IF isStraight THEN <<STRAIGHT, high>>
       ELSE IF gc(1) = 3 THEN <<THREE_OF_A_KIND, gv(1)>> \o kickers
       ELSE IF gc(1) = 2 /\ gc(2) = 2
         THEN <<TWO_PAIR, Max2(gv(1), gv(2)), Min2(gv(1), gv(2)), gv(3)>>
       ELSE IF gc(1) = 2 THEN <<ONE_PAIR, gv(1)>> \o kickers
       ELSE <<HIGH_CARD>> \o values

\* The classification at the end of _evaluate5: values are the five card
\* values sorted descending, groups their rank groups.
Score5(values, groups, isFlush) ==
    LET isWheel == values = <<14, 5, 4, 3, 2>>
        isStraight == isWheel \/ (values[1] - values[5] = 4
                                  /\ Cardinality({values[i] : i \in 1..5}) = 5)
        gv(i) == groups[i][1]
        gc(i) == groups[i][2]
        high == IF isWheel THEN 5 ELSE values[1]
        kickers == SortDesc([i \in 1..(Len(groups) - 1) |-> gv(i + 1)])
    IN IF isFlush /\ isStraight /\ values[1] = 14 /\ values[5] = 10
         THEN <<ROYAL_FLUSH>>
       ELSE IF isFlush /\ isStraight THEN <<STRAIGHT_FLUSH, high>>
       ELSE IF gc(1) = 4 THEN <<FOUR_OF_A_KIND, gv(1), gv(2)>>
       ELSE IF gc(1) = 3 /\ gc(2) = 2 THEN <<FULL_HOUSE, gv(1), gv(2)>>
       ELSE IF isFlush THEN <<FLUSH>> \o values
       ELSE IF isStraight THEN <<STRAIGHT, high>>
       ELSE IF gc(1) = 3 THEN <<THREE_OF_A_KIND, gv(1)>> \o kickers
       ELSE IF gc(1) = 2 /\ gc(2) = 2
         THEN <<TWO_PAIR, Max2(gv(1), gv(2)), Min2(gv(1), gv(2)), gv(3)>>
       ELSE IF gc(1) = 2 THEN <<ONE_PAIR, gv(1)>> \o kickers
       ELSE <<HIGH_CARD>> \o values

\* cards.map(c => c.value).sort((a, b) => b - a)
ValuesOf(cards) == SortDesc([i \in 1..Len(cards) |-> CardValue(cards[i])])

\* _evaluate5(cards): the score tuple of exactly five cards.
evaluate5(cards) ==
    Score5(ValuesOf(cards), RankGroups(ValuesOf(cards)),
           \A i \in 1..Len(cards) : CardSuit(cards[i]) = CardSuit(cards[1]))

\* _combinations(arr, k) over positions: the k-element ascending position
\* sequences drawn from start..n, in the order the recursion produces them.
RECURSIVE CombosFrom(_, _, _)
CombosFrom(start, n, k) ==
    IF k = 0 THEN << <<>> >>
    ELSE IF start > n THEN <<>>
    ELSE LET with == CombosFrom(start + 1, n, k - 1)
         IN [j \in 1..Len(with) |-> <<start>> \o with[j]]
            \o CombosFrom(start + 1, n, k)

\* The position sequences for the input lengths evaluate is given.
FiveOf == [n \in 5..7 |-> CombosFrom(1, n, 5)]

combinations(arr, k) ==
    LET idx == IF k = 5 /\ Len(arr) \in 5..7 THEN FiveOf[Len(arr)]
               ELSE CombosFrom(1, Len(arr), k)
    IN [j \in 1..Len(idx) |-> [m \in 1..k |-> arr[idx[j][m]]]]

\* A turn of the loop that compares the hand categories only.
BetterByCategory(score, combo, best) ==
    IF best.score = <<>> \/ score[1] > best.score[1]
    THEN [score |-> score, bestCards |-> combo]
    ELSE best

\* One turn of the loop of evaluate: the combination replaces the best so
\* far when there is none yet or its score is strictly greater.
Better(score, combo, best) ==
    IF best.score = <<>> \/ compareScores(score, best.score) > 0
    THEN [score |-> score, bestCards |-> combo]
    ELSE best

\* The loop of evaluate over combos[j..].
RECURSIVE BestOf(_, _, _)
BestOf(combos, j, best) ==
    IF j > Len(combos) THEN best
    ELSE BestOf(combos, j + 1, Better(evaluate5(combos[j]), combos[j], best))

\* evaluate(cards): best 5-card hand of 5 to 7 cards.
evaluate(cards) ==
    BestOf(combinations(cards, 5), 1, [score |-> <<>>, bestCards |-> <<>>])

\* ------------------------------------------------------------------ Deck

\* A deal that reads the cards at the end of the array and leaves them there.
DeckDealKeepingCards(deck, count) ==
    <<[i \in 1..count |-> deck[Len(deck) - i + 1]], deck>>

\* deal(count): pop count cards off the end of the array, the first popped
\* first.  The result is <<cards dealt, remaining deck>>.
DeckDeal(deck, count) ==
    <<[i \in 1..count |-> deck[Len(deck) - i + 1]],
      SubSeq(deck, 1, Len(deck) - count)>>

\* burn(): pop one card and drop it.
DeckBurn(deck) == SubSeq(deck, 1, Len(deck) - 1)

\* ------------------------------------------------------------------ PokerGame

BettingStages == {"PRE_FLOP", "FLOP", "TURN", "RIVER"}

Stages == {"WAITING", "SHOWDOWN"} \cup BettingStages

NumPlayers(g) == Len(g.players)

Indexes(g) == 0..(NumPlayers(g) - 1)

IndexSeq(g) == [k \in 1..NumPlayers(g) |-> k - 1]

Seat(g, i) == g.players[i + 1]

\* addPlayer(player): the fields of a fresh seat.
NewPlayer(id, chips) ==
    [id |-> id, seat |-> id, chips |-> chips, hand |-> <<>>, bet |-> 0,
     totalBet |-> 0, folded |-> FALSE, allIn |-> FALSE, acted |-> FALSE,
     disconnected |-> FALSE, sittingOut |-> FALSE, isSB |-> FALSE, isBB |-> FALSE]

\* The engine after its constructor (which shuffles a first deck) and one
\* addPlayer per entry of stacks.
\* events holds the callbacks fired by the call in progress and threw tells
\* that an exception escaped from the engine.
NewGame(stacks, shuffled) ==
    [stage |-> "WAITING", deck |-> shuffled, communityCards |-> <<>>, pot |-> 0,
     players |-> [k \in 1..Len(stacks) |-> NewPlayer(k - 1, stacks[k])],
     dealerIndex |-> -1, currentPlayerIndex |-> -1, lastRaiserIndex |-> -1,
     lastRaiseSize |-> 0, handNumber |-> 0, winners |-> <<>>,
     events |-> <<>>, threw |-> FALSE]

Fire(g, event) == [g EXCEPT !.events = Append(@, event)]

Throw(g) == [g EXCEPT !.threw = TRUE]

IsActive(p) == ~p.folded /\ ~p.sittingOut

IsActionable(p) == ~p.folded /\ ~p.allIn /\ ~p.sittingOut

getActivePlayers(g) == SelectSeq(IndexSeq(g), LAMBDA i : IsActive(Seat(g, i)))

getActionablePlayers(g) == SelectSeq(IndexSeq(g), LAMBDA i : IsActionable(Seat(g, i)))

getPlayersInHand(g) == SelectSeq(IndexSeq(g), LAMBDA i : ~Seat(g, i).sittingOut)

\* players.findIndex(p => p.id === playerId)
findIndex(g, playerId) ==
    IF \E i \in Indexes(g) : Seat(g, i).id = playerId
    THEN CHOOSE i \in Indexes(g) : Seat(g, i).id = playerId
    ELSE -1

SetMin(S) == CHOOSE x \in S : \A y \in S : x <= y

\* The scan shared by the three _next...Index methods: the first index after
\* fromIdx, going round the seat list once, whose seat k steps on satisfies
\* the test; fromIdx itself when there is none.
NextFrom(g, fromIdx, hits) ==
    IF NumPlayers(g) = 0 \/ hits = {} THEN fromIdx
    ELSE (fromIdx + SetMin(hits)) % NumPlayers(g)

StepSeat(g, fromIdx, k) == Seat(g, (fromIdx + k) % NumPlayers(g))

_nextActivePlayerIndexForDealer(g, fromIdx) ==
    NextFrom(g, fromIdx,
             {k \in 1..NumPlayers(g) : ~StepSeat(g, fromIdx, k).sittingOut})

_nextActivePlayerIndex(g, fromIdx) ==
    NextFrom(g, fromIdx,
             {k \in 1..NumPlayers(g) : IsActive(StepSeat(g, fromIdx, k))})

_nextActionablePlayerIndex(g, fromIdx) ==
    NextFrom(g, fromIdx,
             {k \in 1..NumPlayers(g) : IsActionable(StepSeat(g, fromIdx, k))})

_findBBIndex(g) ==
    IF \E i \in Indexes(g) : Seat(g, i).isBB
    THEN SetMin({i \in Indexes(g) : Seat(g, i).isBB})
    ELSE -1

\* Math.max(0, ...players.map(p => p.bet))
RECURSIVE MaxBetFrom(_, _)
MaxBetFrom(ps, k) ==
    IF k > Len(ps) THEN 0 ELSE Max2(ps[k].bet, MaxBetFrom(ps, k + 1))

_getCurrentMaxBet(g) == MaxBetFrom(g.players, 1)

\* A _postBlind that takes the whole blind whatever the stack.
_postBlindInFull(g, i, amount) ==
    LET p == Seat(g, i)
    IN [g EXCEPT !.players[i + 1] =
                     [p EXCEPT !.chips = p.chips - amount, !.bet = amount,
                               !.totalBet = amount,
                               !.allIn = IF p.chips - amount = 0 THEN TRUE ELSE p.allIn],
                 !.pot = g.pot + amount]

_postBlind(g, i, amount) ==
    LET p == Seat(g, i)
        actual == Min2(amount, p.chips)
    IN [g EXCEPT !.players[i + 1] =
                     [p EXCEPT !.chips = p.chips - actual, !.bet = actual,
                               !.totalBet = actual,
                               !.allIn = IF p.chips - actual = 0 THEN TRUE ELSE p.allIn],
                 !.pot = g.pot + actual]

_advanceDealer(g) ==
    IF Len(getPlayersInHand(g)) = 0 THEN g
    ELSE IF g.dealerIndex = -1 THEN [g EXCEPT !.dealerIndex = 0]
    ELSE [g EXCEPT !.dealerIndex = _nextActivePlayerIndexForDealer(g, g.dealerIndex)]

\* An award that reports the hand complete before the showdown.
_awardPotToLastPlayerCompleteFirst(g, w) ==
    Fire(Fire([g EXCEPT !.players[w + 1].chips = @ + g.pot,
                        !.stage = "SHOWDOWN",
                        !.winners = <<[id |-> Seat(g, w).id, amount |-> g.pot]>>],
              "onHandComplete"),
         "onShowdown")

\* _awardPotToLastPlayer(winner), winner given by its index.
_awardPotToLastPlayer(g, w) ==
    LET g1 == [g EXCEPT !.players[w + 1].chips = @ + g.pot,
                        !.stage = "SHOWDOWN",
                        !.winners = <<[id |-> Seat(g, w).id, amount |-> g.pot]>>]
    IN Fire(Fire(g1, "onShowdown"), "onHandComplete")

\* The ascending sequence of the elements of a finite set of integers.
RECURSIVE SortedAsc(_)
SortedAsc(S) ==
    IF S = {} THEN <<>> ELSE <<SetMin(S)>> \o SortedAsc(S \ {SetMin(S)})

\* The ids of the seats at the given indexes.
IdsOf(g, idxs) == {Seat(g, idxs[k]).id : k \in 1..Len(idxs)}

\* The merge loop of _calculateSidePots: a pot whose eligible ids equal those
\* of an earlier merged pot is added to it, any other is appended.
RECURSIVE MergePots(_, _, _, _)
MergePots(g, pots, k, merged) ==
    IF k > Len(pots) THEN merged
    ELSE LET pot == pots[k]
             same == {m \in 1..Len(merged) :
                         IdsOf(g, merged[m].eligible) = IdsOf(g, pot.eligible)}
         IN IF same # {}
              THEN MergePots(g, pots, k + 1,
                       [merged EXCEPT ![SetMin(same)].amount = @ + pot.amount])
              ELSE MergePots(g, pots, k + 1, Append(merged, pot))

\* The level loop of _calculateSidePots over betLevels[k..].
RECURSIVE LevelPots(_, _, _, _, _)
LevelPots(g, inHand, betLevels, k, previousLevel) ==
    IF k > Len(betLevels) THEN <<>>
    ELSE LET level == betLevels[k]
             diff == level - previousLevel
             eligible == SelectSeq(inHand, LAMBDA i : Seat(g, i).totalBet >= level)
             contributors == SelectSeq(inHand, LAMBDA i : Seat(g, i).totalBet > previousLevel)
             amount == SumSeq([c \in 1..Len(contributors) |->
                          Min2(diff, Seat(g, contributors[c]).totalBet - previousLevel)])
             eligibleActive == SelectSeq(eligible, LAMBDA i : ~Seat(g, i).folded)
             rest == LevelPots(g, inHand, betLevels, k + 1, level)
         IN IF diff <= 0 THEN LevelPots(g, inHand, betLevels, k + 1, previousLevel)
            ELSE IF amount > 0
              THEN <<[amount |-> amount,
                      eligible |-> IF Len(eligibleActive) > 0 THEN eligibleActive
                                   ELSE eligible]>> \o rest
              ELSE rest

\* One pot of everything for every seat still in the hand, whatever each
\* seat contributed.
_calculateSidePotsOnePot(g) == <<[amount |-> g.pot, eligible |-> getActivePlayers(g)]>>

\* _calculateSidePots(): a sequence of [amount, eligible], eligible being the
\* indexes of the eligible seats in seat-list order.
_calculateSidePots(g) ==
    LET playersInHand == SelectSeq(getPlayersInHand(g), LAMBDA i : Seat(g, i).totalBet > 0)
        whole == <<[amount |-> g.pot, eligible |-> getActivePlayers(g)]>>
        betLevels == SortedAsc({Seat(g, playersInHand[k]).totalBet :
                                   k \in 1..Len(playersInHand)})
        mergedPots == MergePots(g, LevelPots(g, playersInHand, betLevels, 1, 0), 1, <<>>)
    IN IF Len(playersInHand) = 0 THEN whole
       ELSE IF Len(mergedPots) > 0 THEN mergedPots ELSE whole

\* results.find(...): add the amount to the entry of the id, or append one.
AddResult(results, id, amount) ==
    IF \E r \in 1..Len(results) : results[r].id = id
    THEN [r \in 1..Len(results) |->
             IF results[r].id = id
             THEN [results[r] EXCEPT !.amount = @ + amount] ELSE results[r]]
    ELSE Append(results, [id |-> id, amount |-> amount])

\* winners.forEach((w, i) => ...) from position i on: the share, plus the
\* remainder for position 1, is added to the chips and to the results.
RECURSIVE PayWinners(_, _, _, _, _)
PayWinners(x, winners, i, share, remainder) ==
    IF i > Len(winners) THEN x
    ELSE LET w == winners[i]
             paid == share + (IF i = 1 THEN remainder ELSE 0)
         IN PayWinners(
                [g |-> [x.g EXCEPT !.players[w + 1].chips = @ + paid],
                 results |-> AddResult(x.results, Seat(x.g, w).id, paid)],
                winners, i + 1, share, remainder)

\* Deck.shuffle() may leave any permutation; the model draws from these.  A
\* deck is given by its multiplier and offset: position i holds the card
\* (mult * i + offset) % 52, and mult is coprime to 52.
ShuffleParams == <<<<51, 8>>, <<7, 9>>, <<3, 1>>>>

Shuffle(k) == [i \in 1..52 |-> (ShuffleParams[k][1] * i + ShuffleParams[k][2]) % 52]

Shuffles == {Shuffle(k) : k \in 1..NumShuffles}

\* The five community cards dealt from a deck: burn, flop, burn, turn, burn,
\* river.
BoardOf(deck) ==
    LET flop == DeckDeal(DeckBurn(deck), 3)
        turn == DeckDeal(DeckBurn(flop[2]), 1)
        river == DeckDeal(DeckBurn(turn[2]), 1)
    IN flop[1] \o turn[1] \o river[1]

\* The seven cards (hole cards, then board) a showdown can evaluate when one
\* of the decks is dealt to n seats, for the j-th seat dealt.
ShowdownHands ==
    UNION {UNION {{DeckDeal(SubSeq(d, 1, 52 - 2 * (j - 1)), 2)[1]
                       \o BoardOf(SubSeq(d, 1, 52 - 2 * n)) : j \in 1..n}
                  : n \in 2..4}
           : d \in Shuffles}

\* evaluate(...).score of those hands, computed once.
ShowdownScores == [cards \in ShowdownHands |-> evaluate(cards).score]

\* HandEvaluator.evaluate(allCards).score for seat i at the showdown.
ScoreOf(g, i) ==
    LET allCards == Seat(g, i).hand \o g.communityCards
    IN IF allCards \in ShowdownHands THEN ShowdownScores[allCards]
       ELSE evaluate(allCards).score

\* The evaluations of a pot: its eligible seats that have not folded.
Evaluated(g, pot) == SelectSeq(pot.eligible, LAMBDA i : ~Seat(g, i).folded)

\* Every evaluated seat taken as a winner, whatever its score.
WinnersAllEvaluated(evaluated, scores) == evaluated

\* The winners among the evaluated seats, given the score of each: those whose
\* score ties the best one.  Sorting best first is stable, so the winners keep
\* their seat-list order.
Winners(evaluated, scores) ==
    LET best == {e \in 1..Len(evaluated) :
                    \A f \in 1..Len(evaluated) :
                        compareScores(scores[e], scores[f]) >= 0}
    IN [w \in 1..Cardinality(best) |-> evaluated[SortedAsc(best)[w]]]

\* One pot split between its winners: Math.floor(pot.amount / winners.length)
\* each, the remainder to the first.
PayPot(x, amount, winners) ==
    PayWinners(x, winners, 1, amount \div Len(winners),
               amount - (amount \div Len(winners)) * Len(winners))

\* The pot loop of _showdown from pots[k] on, x holding the engine and the
\* results so far.  With no evaluation at all, evaluations[0] is undefined and
\* reading its eval throws.
RECURSIVE PayPots(_, _, _)
PayPots(x, pots, k) ==
    IF k > Len(pots)
    THEN Fire(Fire([x.g EXCEPT !.winners = x.results], "onShowdown"), "onHandComplete")
    ELSE IF Len(Evaluated(x.g, pots[k])) = 0 THEN Throw(x.g)
    ELSE PayPots(PayPot(x, pots[k].amount,
                        Winners(Evaluated(x.g, pots[k]),
                                [e \in 1..Len(Evaluated(x.g, pots[k])) |->
                                    ScoreOf(x.g, Evaluated(x.g, pots[k])[e])])),
                 pots, k + 1)

\* The engine at the showdown, before any pot is paid.
AtShowdown(g) == [g |-> [g EXCEPT !.stage = "SHOWDOWN"], results |-> <<>>]

_showdown(g) == PayPots(AtShowdown(g), _calculateSidePots(AtShowdown(g).g), 1)

\* A street opened with the seat after the last actor instead of the seat
\* after the dealer.
RECURSIVE _advanceStageFromActor(_)
_advanceStageFromActor(g) ==
    LET g1 == [g EXCEPT !.players = [k \in 1..Len(g.players) |->
                                        [g.players[k] EXCEPT !.bet = 0, !.acted = FALSE]],
                        !.lastRaiseSize = bigBlind]
        activePlayers == getActivePlayers(g1)
        allInOrFolded == Len(getActionablePlayers(g1)) <= 1
        burned == DeckBurn(g1.deck)
        count == IF g1.stage = "PRE_FLOP" THEN 3 ELSE 1
        dealt == DeckDeal(burned, count)
        g2 == Fire([g1 EXCEPT !.stage = CASE g1.stage = "PRE_FLOP" -> "FLOP"
                                          [] g1.stage = "FLOP" -> "TURN"
                                          [] OTHER -> "RIVER",
                              !.deck = dealt[2],
                              !.communityCards = @ \o dealt[1]],
                   "onStageChange")
    IN IF Len(activePlayers) = 1 THEN _awardPotToLastPlayer(g1, activePlayers[1])
       ELSE IF g1.stage = "RIVER" THEN _showdown(g1)
       ELSE IF allInOrFolded THEN _advanceStageFromActor(g2)
       ELSE Fire([g2 EXCEPT !.currentPlayerIndex =
                                _nextActionablePlayerIndex(g2, g2.currentPlayerIndex),
                            !.lastRaiserIndex = -1],
                 "onStateChange")

\* _advanceStage(): resets the street, deals the next one, and calls itself
\* again while at most one seat can act, down to the showdown.
RECURSIVE _advanceStage(_)
_advanceStage(g) ==
    LET g1 == [g EXCEPT !.players = [k \in 1..Len(g.players) |->
                                        [g.players[k] EXCEPT !.bet = 0, !.acted = FALSE]],
                        !.lastRaiseSize = bigBlind]
        activePlayers == getActivePlayers(g1)
        allInOrFolded == Len(getActionablePlayers(g1)) <= 1
        burned == DeckBurn(g1.deck)
        count == IF g1.stage = "PRE_FLOP" THEN 3 ELSE 1
        dealt == DeckDeal(burned, count)
        g2 == Fire([g1 EXCEPT !.stage = CASE g1.stage = "PRE_FLOP" -> "FLOP"
                                          [] g1.stage = "FLOP" -> "TURN"
                                          [] OTHER -> "RIVER",
                              !.deck = dealt[2],
                              !.communityCards = @ \o dealt[1]],
                   "onStageChange")
    IN IF Len(activePlayers) = 1 THEN _awardPotToLastPlayer(g1, activePlayers[1])
       ELSE IF g1.stage = "RIVER" THEN _showdown(g1)
       ELSE IF allInOrFolded THEN _advanceStage(g2)
       ELSE Fire([g2 EXCEPT !.currentPlayerIndex =
                                _nextActionablePlayerIndex(g2, g2.dealerIndex),
                            !.lastRaiserIndex = -1],
                 "onStateChange")

\* A search that takes the seat of lowest index that has still to act.
FindNextToActFromFirstSeat(g, nextIdx, checked) ==
    IF \E i \in Indexes(g) : IsActionable(Seat(g, i)) /\ ~Seat(g, i).acted
    THEN SetMin({i \in Indexes(g) : IsActionable(Seat(g, i)) /\ ~Seat(g, i).acted})
    ELSE -1

\* The while loop of _advanceAction: nextIdx is tried, then the actionable
\* index after it, at most players.length times.
RECURSIVE FindNextToAct(_, _, _)
FindNextToAct(g, nextIdx, checked) ==
    IF checked >= NumPlayers(g) THEN -1
    ELSE IF IsActionable(Seat(g, nextIdx)) /\ ~Seat(g, nextIdx).acted THEN nextIdx
    ELSE FindNextToAct(g, _nextActionablePlayerIndex(g, nextIdx), checked + 1)

\* A turn advancement that ends the round only when no seat is actionable.
_advanceActionWhileAnyActionable(g) ==
    IF Len(getActionablePlayers(g)) = 0 THEN _advanceStage(g)
    ELSE Fire([g EXCEPT !.currentPlayerIndex =
                           _nextActionablePlayerIndex(g, g.currentPlayerIndex)],
              "onStateChange")

_advanceAction(g) ==
    LET actionable == getActionablePlayers(g)
        found == FindNextToAct(g, _nextActionablePlayerIndex(g, g.currentPlayerIndex), 0)
        roundOver == \/ Len(actionable) = 0
                     \/ Len(actionable) = 1 /\ Seat(g, actionable[1]).acted
                     \/ found = -1
    IN IF roundOver THEN _advanceStage(g)
       ELSE Fire([g EXCEPT !.currentPlayerIndex = found], "onStateChange")

\* A rejection that comes after a write: the pot has already been touched.
RejectedAfterWrite(g, error) ==
    [ok |-> FALSE, error |-> error, g |-> [g EXCEPT !.pot = @ + 1], seen |-> g]

\* What handleAction hands back: ok and error are the success and error fields
\* of its result (the error text shortened to a code), g is the engine when it
\* returns, and seen the engine as the onPlayerAction callback finds it (the
\* handler's own changes, before the turn advances).
Rejected(g, error) == [ok |-> FALSE, error |-> error, g |-> g, seen |-> g]

Accepted(seen, g) == [ok |-> TRUE, error |-> "", g |-> g, seen |-> seen]

_handleFold(g, playerIdx) ==
    LET g1 == Fire([g EXCEPT !.players[playerIdx + 1].folded = TRUE,
                             !.players[playerIdx + 1].acted = TRUE],
                   "onPlayerAction")
        active == getActivePlayers(g1)
    IN IF Len(active) = 1 THEN Accepted(g1, _awardPotToLastPlayer(g1, active[1]))
       ELSE Accepted(g1, _advanceAction(g1))

\* A check that is accepted whatever the seat's bet.
_handleCheckAnyBet(g, playerIdx, maxBet) ==
    [ok |-> TRUE, error |-> "",
     g |-> _advanceAction(Fire([g EXCEPT !.players[playerIdx + 1].acted = TRUE],
                               "onPlayerAction")),
     seen |-> Fire([g EXCEPT !.players[playerIdx + 1].acted = TRUE], "onPlayerAction")]

_handleCheck(g, playerIdx, maxBet) ==
    LET g1 == Fire([g EXCEPT !.players[playerIdx + 1].acted = TRUE], "onPlayerAction")
    IN IF Seat(g, playerIdx).bet < maxBet THEN Rejected(g, "needCallOrRaise")
       ELSE Accepted(g1, _advanceAction(g1))

\* A call that pays the whole difference, whatever chips the seat has.
_handleCallInFull(g, playerIdx, maxBet) ==
    LET player == Seat(g, playerIdx)
        callAmount == maxBet - player.bet
        g1 == Fire([g EXCEPT !.players[playerIdx + 1] =
                                 [player EXCEPT !.chips = @ - callAmount,
                                                !.bet = @ + callAmount,
                                                !.totalBet = @ + callAmount,
                                                !.acted = TRUE,
                                                !.allIn = IF player.chips - callAmount = 0
                                                          THEN TRUE ELSE @],
                             !.pot = @ + callAmount],
                   "onPlayerAction")
    IN IF callAmount <= 0 THEN [ok |-> FALSE, error |-> "nothingToCall", g |-> g, seen |-> g]
       ELSE [ok |-> TRUE, error |-> "", g |-> _advanceAction(g1), seen |-> g1]

_handleCall(g, playerIdx, maxBet) ==
    LET player == Seat(g, playerIdx)
        callAmount == Min2(maxBet - player.bet, player.chips)
        g1 == Fire([g EXCEPT !.players[playerIdx + 1] =
                                 [player EXCEPT !.chips = @ - callAmount,
                                                !.bet = @ + callAmount,
                                                !.totalBet = @ + callAmount,
                                                !.acted = TRUE,
                                                !.allIn = IF player.chips - callAmount = 0
                                                          THEN TRUE ELSE @],
                             !.pot = @ + callAmount],
                   "onPlayerAction")
    IN IF callAmount <= 0 THEN Rejected(g, "nothingToCall")
       ELSE Accepted(g1, _advanceAction(g1))

\* A loop that reopens nothing: every acted flag is kept.
ResetActedSkipped(ps, playerIdx) == ps

\* The loop that reopens the betting: acted is cleared on every seat other
\* than playerIdx that is not folded, not all-in and not sitting out.
ResetActed(ps, playerIdx) ==
    [k \in 1..Len(ps) |->
        IF k # playerIdx + 1 /\ IsActionable(ps[k])
        THEN [ps[k] EXCEPT !.acted = FALSE] ELSE ps[k]]

\* A raise without the minimum-raise test.
_handleRaiseAnySize(g, playerIdx, raiseTo, maxBet) ==
    LET player == Seat(g, playerIdx)
        totalNeeded == raiseTo - player.bet
        moved == [g EXCEPT !.players[playerIdx + 1] =
                               [player EXCEPT !.chips = @ - totalNeeded,
                                              !.bet = @ + totalNeeded,
                                              !.totalBet = @ + totalNeeded,
                                              !.acted = TRUE,
                                              !.allIn = IF player.chips - totalNeeded = 0
                                                        THEN TRUE ELSE @],
                           !.pot = @ + totalNeeded,
                           !.lastRaiseSize = Max2(@, raiseTo - maxBet)]
        g1 == Fire([moved EXCEPT !.players = ResetActed(moved.players, playerIdx),
                                 !.lastRaiserIndex = playerIdx],
                   "onPlayerAction")
    IN IF raiseTo <= maxBet \/ totalNeeded > player.chips
         THEN [ok |-> FALSE, error |-> "rejected", g |-> g, seen |-> g]
       ELSE [ok |-> TRUE, error |-> "", g |-> _advanceAction(g1), seen |-> g1]

_handleRaise(g, playerIdx, raiseTo, maxBet) ==
    LET player == Seat(g, playerIdx)
        minRaise == maxBet + g.lastRaiseSize
        totalNeeded == raiseTo - player.bet
        actualRaise == raiseTo - maxBet
        moved == [g EXCEPT !.players[playerIdx + 1] =
                               [player EXCEPT !.chips = @ - totalNeeded,
                                              !.bet = @ + totalNeeded,
                                              !.totalBet = @ + totalNeeded,
                                              !.acted = TRUE,
                                              !.allIn = IF player.chips - totalNeeded = 0
                                                        THEN TRUE ELSE @],
                           !.pot = @ + totalNeeded,
                           !.lastRaiseSize = Max2(@, actualRaise)]
        g1 == Fire([moved EXCEPT !.players = ResetActed(moved.players, playerIdx),
                                 !.lastRaiserIndex = playerIdx],
                   "onPlayerAction")
    IN IF raiseTo <= maxBet THEN Rejected(g, "notAboveMaxBet")
       ELSE IF totalNeeded > player.chips THEN Rejected(g, "notEnoughChips")
       ELSE IF raiseTo < minRaise /\ totalNeeded < player.chips THEN Rejected(g, "belowMinRaise")
       ELSE Accepted(g1, _advanceAction(g1))

_handleAllIn(g, playerIdx, maxBet) ==
    LET player == Seat(g, playerIdx)
        allInAmount == player.chips
        newBet == player.bet + allInAmount
        raiseAmount == newBet - maxBet
        moved == [g EXCEPT !.players[playerIdx + 1] =
                               [player EXCEPT !.chips = 0,
                                              !.totalBet = @ + allInAmount,
                                              !.acted = TRUE,
                                              !.allIn = TRUE],
                           !.pot = @ + allInAmount]
        reopened == IF newBet > maxBet /\ raiseAmount >= g.lastRaiseSize
                    THEN [moved EXCEPT !.lastRaiseSize = raiseAmount,
                                       !.lastRaiserIndex = playerIdx,
                                       !.players = ResetActed(moved.players, playerIdx)]
                    ELSE moved
        g1 == Fire([reopened EXCEPT !.players[playerIdx + 1].bet = newBet],
                   "onPlayerAction")
        active == getActivePlayers(g1)
    IN IF Len(active) = 1 THEN Accepted(g1, _awardPotToLastPlayer(g1, active[1]))
       ELSE Accepted(g1, _advanceAction(g1))

Actions == {"fold", "check", "call", "raise", "allin"}

\* handleAction without the test that the seat can still act.
handleActionAnySeat(g, playerId, action, amount) ==
    LET playerIdx == findIndex(g, playerId)
        maxBet == _getCurrentMaxBet(g)
    IN IF playerIdx = -1 THEN Rejected(g, "noSuchPlayer")
       ELSE IF g.stage = "WAITING" \/ g.stage = "SHOWDOWN" THEN Rejected(g, "notBetting")
       ELSE IF playerIdx # g.currentPlayerIndex THEN Rejected(g, "notYourTurn")
       ELSE CASE action = "fold" -> _handleFold(g, playerIdx)
              [] action = "check" -> _handleCheck(g, playerIdx, maxBet)
              [] action = "call" -> _handleCall(g, playerIdx, maxBet)
              [] action = "raise" -> _handleRaise(g, playerIdx, amount, maxBet)
              [] action = "allin" -> _handleAllIn(g, playerIdx, maxBet)
              [] OTHER -> Rejected(g, "invalidAction")

handleAction(g, playerId, action, amount) ==
    LET playerIdx == findIndex(g, playerId)
        player == Seat(g, playerIdx)
        maxBet == _getCurrentMaxBet(g)
    IN IF playerIdx = -1 THEN Rejected(g, "noSuchPlayer")
       ELSE IF g.stage = "WAITING" \/ g.stage = "SHOWDOWN" THEN Rejected(g, "notBetting")
       ELSE IF playerIdx # g.currentPlayerIndex THEN Rejected(g, "notYourTurn")
       ELSE IF player.folded \/ player.allIn \/ player.sittingOut THEN Rejected(g, "cannotAct")
       ELSE CASE action = "fold" -> _handleFold(g, playerIdx)
              [] action = "check" -> _handleCheck(g, playerIdx, maxBet)
              [] action = "call" -> _handleCall(g, playerIdx, maxBet)
              [] action = "raise" -> _handleRaise(g, playerIdx, amount, maxBet)
              [] action = "allin" -> _handleAllIn(g, playerIdx, maxBet)
              [] OTHER -> Rejected(g, "invalidAction")

\* The per-hand reset loop of startHand.
ResetForHand(ps) ==
    [k \in 1..Len(ps) |->
        [ps[k] EXCEPT !.sittingOut = (ps[k].chips <= 0 \/ ps[k].disconnected),
                      !.hand = <<>>, !.bet = 0, !.totalBet = 0, !.folded = FALSE,
                      !.allIn = FALSE, !.acted = FALSE, !.isSB = FALSE, !.isBB = FALSE]]

\* "Deal hole cards": deck.deal(2) for inHand[k..], in seat-list order.
RECURSIVE DealHoleCards(_, _, _)
DealHoleCards(g, inHand, k) ==
    IF k > Len(inHand) THEN g
    ELSE LET dealt == DeckDeal(g.deck, 2)
         IN DealHoleCards([g EXCEPT !.players[inHand[k] + 1].hand = dealt[1],
                                    !.deck = dealt[2]],
                          inHand, k + 1)

\* Both blinds posted and marked.
PostBlinds(g, sbIdx, bbIdx) ==
    LET posted == _postBlind(_postBlind(g, sbIdx, smallBlind), bbIdx, bigBlind)
    IN [posted EXCEPT !.players[sbIdx + 1].isSB = TRUE,
                      !.players[bbIdx + 1].isBB = TRUE]

\* A startHand that counts the hand before it tests the eligibility.
startHandCountedFirst(g, shuffled) ==
    LET eligible == SelectSeq(IndexSeq(g),
                        LAMBDA i : Seat(g, i).chips > 0 /\ ~Seat(g, i).disconnected)
        g1 == _advanceDealer(
                  [g EXCEPT !.players = ResetForHand(g.players),
                            !.handNumber = @ + 1,
                            !.deck = shuffled,
                            !.communityCards = <<>>,
                            !.pot = 0,
                            !.winners = <<>>,
                            !.lastRaiseSize = bigBlind])
        inHand == getPlayersInHand(g1)
        numPlayers == Len(inHand)
        headsUpSB == g1.dealerIndex
        headsUpBB == SelectSeq(inHand, LAMBDA i : i # headsUpSB)[1]
        sbIdx == _nextActivePlayerIndex(g1, g1.dealerIndex)
        bbIdx == _nextActivePlayerIndex(g1, sbIdx)
        g2 == IF numPlayers = 2 THEN PostBlinds(g1, headsUpSB, headsUpBB)
              ELSE PostBlinds(g1, sbIdx, bbIdx)
        g3 == [DealHoleCards(g2, inHand, 1) EXCEPT !.stage = "PRE_FLOP"]
        g4 == [g3 EXCEPT !.currentPlayerIndex =
                             IF numPlayers = 2 THEN g3.dealerIndex
                             ELSE _nextActionablePlayerIndex(g3, _findBBIndex(g3)),
                         !.lastRaiserIndex = _findBBIndex(g3)]
    IN IF Len(eligible) < 2 THEN [ok |-> FALSE, g |-> [g EXCEPT !.handNumber = @ + 1]]
       ELSE IF numPlayers = 2 /\ Seat(g1, g1.dealerIndex).sittingOut
         THEN [ok |-> FALSE, g |-> Throw(g1)]
       ELSE [ok |-> TRUE, g |-> Fire(g4, "onStateChange")]

\* startHand(), shuffled being the outcome of deck.reset().  Heads-up the
\* small blind is the in-hand seat at the dealer index; when that seat sits
\* out, find returns undefined and _postBlind throws on it.
startHand(g, shuffled) ==
    LET eligible == SelectSeq(IndexSeq(g),
                        LAMBDA i : Seat(g, i).chips > 0 /\ ~Seat(g, i).disconnected)
        g1 == _advanceDealer(
                  [g EXCEPT !.players = ResetForHand(g.players),
                            !.handNumber = @ + 1,
                            !.deck = shuffled,
                            !.communityCards = <<>>,
                            !.pot = 0,
                            !.winners = <<>>,
                            !.lastRaiseSize = bigBlind])
        inHand == getPlayersInHand(g1)
        numPlayers == Len(inHand)
        headsUpSB == g1.dealerIndex
        headsUpBB == SelectSeq(inHand, LAMBDA i : i # headsUpSB)[1]
        sbIdx == _nextActivePlayerIndex(g1, g1.dealerIndex)
        bbIdx == _nextActivePlayerIndex(g1, sbIdx)
        g2 == IF numPlayers = 2 THEN PostBlinds(g1, headsUpSB, headsUpBB)
              ELSE PostBlinds(g1, sbIdx, bbIdx)
        g3 == [DealHoleCards(g2, inHand, 1) EXCEPT !.stage = "PRE_FLOP"]
        g4 == [g3 EXCEPT !.currentPlayerIndex =
                             IF numPlayers = 2 THEN g3.dealerIndex
                             ELSE _nextActionablePlayerIndex(g3, _findBBIndex(g3)),
                         !.lastRaiserIndex = _findBBIndex(g3)]
    IN IF Len(eligible) < 2 THEN [ok |-> FALSE, g |-> g]
       ELSE IF numPlayers = 2 /\ Seat(g1, g1.dealerIndex).sittingOut
         THEN [ok |-> FALSE, g |-> Throw(g1)]
       ELSE [ok |-> TRUE, g |-> Fire(g4, "onStateChange")]

\* playerDisconnected(playerId)
playerDisconnected(g, playerId) ==
    LET idx == findIndex(g, playerId)
        g1 == [g EXCEPT !.players[idx + 1].disconnected = TRUE]
        player == Seat(g1, idx)
        g2 == [g1 EXCEPT !.players[idx + 1].folded = TRUE]
        active == getActivePlayers(g2)
    IN IF idx = -1 THEN g
       ELSE IF g1.stage \in BettingStages /\ ~player.folded /\ ~player.allIn
         THEN IF idx = g1.currentPlayerIndex
                THEN handleAction(g1, playerId, "fold", 0).g
              ELSE IF Len(active) = 1 THEN _awardPotToLastPlayer(g2, active[1])
              ELSE g2
       ELSE g1

\* PokerGame.removePlayer(playerId)
removePlayer(g, playerId) ==
    LET idx == findIndex(g, playerId)
        moved == IF idx < g.dealerIndex THEN g.dealerIndex - 1
                 ELSE IF idx = g.dealerIndex
                   THEN Min2(g.dealerIndex, Len(g.players) - 2)
                 ELSE g.dealerIndex
    IN IF idx = -1 THEN g
       ELSE [g EXCEPT !.dealerIndex = IF moved < 0 THEN 0 ELSE moved,
                      !.players = SubSeq(g.players, 1, idx)
                                  \o SubSeq(g.players, idx + 2, Len(g.players))]

\* getGameState called without a player id (forPlayerId = null).
NoPlayer == -1

\* An enumeration that offers the full minimum raise whatever the stack.
_getAvailableActionsFullRaise(g, player) ==
    <<[action |-> "fold"]>>
    \o (IF player.bet >= _getCurrentMaxBet(g) THEN <<[action |-> "check"]>>
        ELSE <<[action |-> "call",
                amount |-> Min2(_getCurrentMaxBet(g) - player.bet, player.chips)]>>)
    \o (IF player.bet + player.chips > _getCurrentMaxBet(g)
          THEN <<[action |-> "raise", min |-> _getCurrentMaxBet(g) + g.lastRaiseSize,
                  max |-> player.bet + player.chips]>>
        ELSE <<>>)
    \o (IF player.chips > 0 THEN <<[action |-> "allin", amount |-> player.chips]>>
        ELSE <<>>)

\* _getAvailableActions(player): the actions in the order they are pushed.
\* fold and check carry no number; call and allin carry amount; raise
\* carries min and max.
_getAvailableActions(g, player) ==
    LET maxBet == _getCurrentMaxBet(g)
        minRaise == maxBet + g.lastRaiseSize
        maxRaise == player.bet + player.chips
    IN <<[action |-> "fold"]>>
       \o (IF player.bet >= maxBet THEN <<[action |-> "check"]>>
           ELSE <<[action |-> "call",
                   amount |-> Min2(maxBet - player.bet, player.chips)]>>)
       \o (IF maxRaise > maxBet
             THEN <<[action |-> "raise", min |-> Min2(minRaise, maxRaise),
                     max |-> maxRaise]>>
           ELSE <<>>)
       \o (IF player.chips > 0 THEN <<[action |-> "allin", amount |-> player.chips]>>
           ELSE <<>>)

\* A snapshot entry that shows the hand of a seat not folded in every stage.
PlayerInfoAnyStage(g, k, forPlayerId) ==
    LET p == g.players[k]
    IN [id |-> p.id, chips |-> p.chips, bet |-> p.bet, totalBet |-> p.totalBet,
        folded |-> p.folded, allIn |-> p.allIn, sittingOut |-> p.sittingOut,
        disconnected |-> p.disconnected, seat |-> p.seat,
        isDealer |-> (k - 1 = g.dealerIndex),
        isSB |-> p.isSB, isBB |-> p.isBB,
        isCurrent |-> (k - 1 = g.currentPlayerIndex /\ g.stage \in BettingStages),
        hand |-> IF \/ forPlayerId # NoPlayer /\ p.id = forPlayerId /\ Len(p.hand) > 0
                    \/ ~p.folded /\ Len(p.hand) > 0
                 THEN p.hand ELSE <<>>]

\* The entry of one seat in a snapshot; hand <<>> stands for null.
PlayerInfo(g, k, forPlayerId) ==
    LET p == g.players[k]
    IN [id |-> p.id, chips |-> p.chips, bet |-> p.bet, totalBet |-> p.totalBet,
        folded |-> p.folded, allIn |-> p.allIn, sittingOut |-> p.sittingOut,
        disconnected |-> p.disconnected, seat |-> p.seat,
        isDealer |-> (k - 1 = g.dealerIndex),
        isSB |-> p.isSB, isBB |-> p.isBB,
        isCurrent |-> (k - 1 = g.currentPlayerIndex /\ g.stage \in BettingStages),
        hand |-> IF \/ forPlayerId # NoPlayer /\ p.id = forPlayerId /\ Len(p.hand) > 0
                    \/ g.stage = "SHOWDOWN" /\ ~p.folded /\ Len(p.hand) > 0
                 THEN p.hand ELSE <<>>]

\* getGameState(forPlayerId); availableActions <<>> stands for the field
\* being absent.
getGameState(g, forPlayerId) ==
    [stage |-> g.stage, pot |-> g.pot, communityCards |-> g.communityCards,
     dealerIndex |-> g.dealerIndex, currentPlayerIndex |-> g.currentPlayerIndex,
     handNumber |-> g.handNumber, smallBlind |-> smallBlind, bigBlind |-> bigBlind,
     winners |-> g.winners,
     players |-> [k \in 1..Len(g.players) |-> PlayerInfo(g, k, forPlayerId)],
     availableActions |->
         IF /\ forPlayerId # NoPlayer
            /\ findIndex(g, forPlayerId) = g.currentPlayerIndex
            /\ g.stage \in BettingStages
         THEN _getAvailableActions(g, Seat(g, findIndex(g, forPlayerId)))
         ELSE <<>>]

\* ------------------------------------------------------------------ AIDecisionEngine

\* amount: null
NoAmount == -1

\* PERSONALITY_CONFIG: the action weights in tenths, the fractions of the
\* sizing tiers and the jitter range in hundredths.
PERSONALITY_CONFIG ==
    [balanced |-> [raiseBoost |-> 10, callBoost |-> 10, foldBoost |-> 10,
                   bluffBoost |-> 10, slowplayBoost |-> 10,
                   sizingTiers |-> {33, 50, 67, 80, 100}, jitterRange |-> 8],
     aggressive |-> [raiseBoost |-> 16, callBoost |-> 9, foldBoost |-> 7,
                     bluffBoost |-> 13, slowplayBoost |-> 6,
                     sizingTiers |-> {50, 67, 80, 100, 150}, jitterRange |-> 10],
     bluffer |-> [raiseBoost |-> 11, callBoost |-> 10, foldBoost |-> 9,
                  bluffBoost |-> 22, slowplayBoost |-> 15,
                  sizingTiers |-> {25, 33, 50, 67, 100}, jitterRange |-> 10]]

Personalities == DOMAIN PERSONALITY_CONFIG

\* QUALITY_TIERS, a quality of 1.0 being 14000.
QUALITY_TIERS ==
    [very_strong |-> 11200, strong |-> 9800, medium |-> 7000, marginal |-> 4200]

\* BASE_ACTION_PROBS, in hundredths.
BASE_ACTION_PROBS ==
    [very_strong |-> [fold |-> 0, check |-> 10, call |-> 15, raise |-> 75],
     strong |-> [fold |-> 2, check |-> 13, call |-> 35, raise |-> 50],
     medium |-> [fold |-> 12, check |-> 25, call |-> 38, raise |-> 25],
     marginal |-> [fold |-> 35, check |-> 25, call |-> 25, raise |-> 15],
     weak |-> [fold |-> 60, check |-> 25, call |-> 8, raise |-> 7]]

\* _estimatePreflopStrength(hand), a quality of 1.0 being 14000.
_estimatePreflopStrength(hand) ==
    IF Len(hand) # 2 THEN 4200
    ELSE LET r1 == CardValue(hand[1])
             r2 == CardValue(hand[2])
             high == Max2(r1, r2)
             low == Min2(r1, r2)
             score == IF r1 = r2 THEN 7000 + (r1 - 2) * 588
                      ELSE (high + low) * 500
                           + (IF CardSuit(hand[1]) = CardSuit(hand[2]) THEN 840 ELSE 0)
                           + (IF high - low <= 2 THEN 560 ELSE 0)
                           - (IF high - low >= 5 THEN 700 ELSE 0)
         IN Max2(0, Min2(14000, score))

\* _handRankToQuality(evalResult): rankMap[rank] || 0.2
_handRankToQuality(evalResult) ==
    LET rankMap == <<2100, 4900, 7700, 9100, 10500, 10920, 11900, 12880, 13720>>
    IN IF evalResult.score[1] \in DOMAIN rankMap THEN rankMap[evalResult.score[1]]
       ELSE 2800

\* _qualityToLabel(quality)
_qualityToLabel(quality) ==
    IF quality >= QUALITY_TIERS.very_strong THEN "very_strong"
    ELSE IF quality >= QUALITY_TIERS.strong THEN "strong"
    ELSE IF quality >= QUALITY_TIERS.medium THEN "medium"
    ELSE IF quality >= QUALITY_TIERS.marginal THEN "marginal"
    ELSE "weak"

\* seats.indexOf(seat) among the seats of the players in the hand, -1 when
\* the seat is not among them or the index designates no player.
SeatPos(g, idx) ==
    IF idx \in Indexes(g) /\ ~Seat(g, idx).sittingOut
    THEN Cardinality({i \in Indexes(g) : i < idx /\ ~Seat(g, i).sittingOut})
    ELSE -1

\* _getPosition(game, playerIdx)
_getPosition(g, playerIdx) ==
    LET n == Len(getPlayersInHand(g))
        relPos == ((SeatPos(g, playerIdx) - SeatPos(g, g.dealerIndex)) + n) % n
    IN IF n <= 1 THEN "unknown"
       ELSE IF relPos = 0 THEN "dealer"
       ELSE IF relPos = 1 THEN (IF n = 2 THEN "bb" ELSE "sb")
       ELSE IF relPos = 2 /\ n > 2 THEN "bb"
       ELSE IF relPos <= (n \div 3) + 2 THEN "early"
       ELSE IF relPos <= ((2 * n) \div 3) + 1 THEN "middle"
       ELSE "late"

\* normalizeInput(game, playerId): the fields the decision reads; quality is
\* _computeQuality(input).
normalizeInput(g, playerId) ==
    LET player == Seat(g, findIndex(g, playerId))
        maxBet == _getCurrentMaxBet(g)
    IN [stage |-> g.stage,
        potSize |-> g.pot,
        currentBet |-> maxBet,
        playerBet |-> player.bet,
        playerChips |-> player.chips,
        callAmount |-> Min2(maxBet - player.bet, player.chips),
        position |-> _getPosition(g, findIndex(g, playerId)),
        quality |-> IF g.stage = "PRE_FLOP"
                    THEN (IF Len(player.hand) = 2 /\ Len(g.communityCards) = 0
                          THEN _estimatePreflopStrength(player.hand) ELSE 0)
                    ELSE IF Len(player.hand) = 2 /\ Len(g.communityCards) > 0
                    THEN _handRankToQuality(evaluate(player.hand \o g.communityCards))
                    ELSE 4200,
        availableActions |-> _getAvailableActions(g, player),
        bigBlind |-> bigBlind]

\* availableActions.find(a => a.action === name), <<>> when there is none.
FindAction(input, name) ==
    SelectSeq(input.availableActions, LAMBDA a : a.action = name)

\* The weights of a mix, each multiplied by its factor.
MixTimes(mix, fold, check, call, raise) ==
    [fold |-> mix.fold * fold, check |-> mix.check * check,
     call |-> mix.call * call, raise |-> mix.raise * raise]

\* computeActionMix, steps 1 to 3: the boosts of the personality.
PersonalityBoosts(mix, label, w) ==
    MixTimes(mix,
             w.foldBoost * 10,
             10 * (IF label \in {"very_strong", "strong"} THEN w.slowplayBoost ELSE 10),
             w.callBoost
             * (IF label \in {"very_strong", "strong"} THEN w.slowplayBoost ELSE 10),
             w.raiseBoost
             * (IF label \in {"weak", "marginal"} THEN w.bluffBoost ELSE 10))

\* computeActionMix, step 4: a late position favours raising.
PositionAdjustment(mix, input) ==
    IF input.position \in {"dealer", "late"} THEN MixTimes(mix, 17, 20, 20, 23)
    ELSE mix

\* computeActionMix, step 5: potOdds = callAmount / (potSize + callAmount)
\* against 0.35 and 0.15.
PotOddsAdjustment(mix, input) ==
    IF input.callAmount > 0 /\ input.potSize > 0
    THEN IF 100 * input.callAmount > 35 * (input.potSize + input.callAmount)
         THEN MixTimes(mix, 13, 10, 7, 10)
         ELSE IF 100 * input.callAmount < 15 * (input.potSize + input.callAmount)
         THEN MixTimes(mix, 6, 10, 14, 10)
         ELSE mix
    ELSE mix

\* computeActionMix, step 6: under five big blinds, raise or fold.
ShortStack(mix, input) ==
    IF input.playerChips < input.bigBlind * 5
    THEN [fold |-> 10 * mix.fold + 3 * mix.call + 5 * mix.check,
          check |-> 0,
          call |-> 0,
          raise |-> 10 * mix.raise + 7 * mix.call + 5 * mix.check]
    ELSE mix

\* availableActions.includes('check') || currentBet <= playerBet
CanCheck(input) ==
    FindAction(input, "check") # <<>> \/ input.currentBet <= input.playerBet

\* computeActionMix, step 7: the legality adjustments.
LegalityAdjustments(mix, input) ==
    LET needsCall == input.callAmount > 0 /\ input.currentBet > input.playerBet
        m == IF ~CanCheck(input) /\ ~needsCall
             THEN [mix EXCEPT !.fold = mix.fold + mix.check, !.check = 0]
             ELSE IF ~CanCheck(input) /\ needsCall
             THEN [mix EXCEPT !.call = mix.call + mix.check, !.check = 0]
             ELSE IF CanCheck(input) /\ ~needsCall
             THEN [mix EXCEPT !.check = mix.check + mix.fold, !.fold = 0]
             ELSE mix
    IN IF FindAction(input, "raise") = <<>>
       THEN [m EXCEPT !.call = m.call + m.raise, !.raise = 0]
       ELSE m

\* computeActionMix, step 8: the division by the total is kept as the pair
\* of a weight and the total, the probability of an action being its weight
\* over total.
Normalize(mix, input) ==
    LET total == mix.fold + mix.check + mix.call + mix.raise
    IN IF total > 0
       THEN [fold |-> mix.fold, check |-> mix.check, call |-> mix.call,
             raise |-> mix.raise, total |-> total]
       ELSE [fold |-> IF CanCheck(input) THEN 0 ELSE 1,
             check |-> IF CanCheck(input) THEN 1 ELSE 0,
             call |-> mix.call, raise |-> mix.raise, total |-> 1]

\* computeActionMix(input, quality, pConfig)
computeActionMix(input, quality, pConfig) ==
    Normalize(
        LegalityAdjustments(
            ShortStack(
                PotOddsAdjustment(
                    PositionAdjustment(
                        PersonalityBoosts(BASE_ACTION_PROBS[_qualityToLabel(quality)],
                                          _qualityToLabel(quality), pConfig),
                        input),
                    input),
                input),
            input),
        input)

MixActions == {"fold", "check", "call", "raise"}

\* sampleAction(mix): an action of positive probability, or fold when the
\* cumulative sum stays under the random number.
sampleAction(mix) == {a \in MixActions : mix[a] > 0} \cup {"fold"}

\* The amounts computeRaiseSizing can round to for one tier: the multiples
\* k * bigBlind with Math.round(amount / bigBlind) = k for some jitter in
\* [1 - jitterRange, 1 + jitterRange], amount being
\* (currentBet + fraction * potSize) * jitter.
RoundedSizings(input, fraction, jitterRange) ==
    LET base == 100 * input.currentBet + fraction * input.potSize
    IN {k * input.bigBlind : k \in
          {j \in 0..((base * (100 + jitterRange)) \div (10000 * input.bigBlind) + 1) :
              /\ base * (100 - jitterRange) < (2 * j + 1) * 5000 * input.bigBlind
              /\ base * (100 + jitterRange) >= (2 * j - 1) * 5000 * input.bigBlind}}

\* computeRaiseSizing(input, pConfig, quality): every amount it can return,
\* {NoAmount} when no raise is offered.
computeRaiseSizing(input, pConfig) ==
    IF FindAction(input, "raise") = <<>> THEN {NoAmount}
    ELSE {Max2(FindAction(input, "raise")[1].min,
               Min2(FindAction(input, "raise")[1].max, amount)) :
            amount \in UNION {RoundedSizings(input, fraction, pConfig.jitterRange) :
                                fraction \in pConfig.sizingTiers}}

\* What the request to the model can come to: the abort after the timeout,
\* a failure of the network, a status that is not ok, a body that is no
\* JSON, an empty text, a text without a JSON object, and an object whose
\* amount is a number or not.
LLMOutcomes ==
    {[kind |-> k, amount |-> NoAmount] :
        k \in {"timeout", "network", "http_error", "invalid_json", "empty",
               "unparsable", "parsed"}}
    \cup {[kind |-> "parsed", amount |-> a] : a \in 0..MaxTuned}

\* decideWithLLM(input, context): parsed is FALSE for null.
decideWithLLM(outcome) ==
    IF outcome.kind = "parsed" THEN [parsed |-> TRUE, amount |-> outcome.amount]
    ELSE [parsed |-> FALSE, amount |-> NoAmount]

\* A validation that lets every call through.
validateActionAnyCall(decision, input) ==
    CASE decision.action \in {"fold", "call"} -> TRUE
      [] decision.action = "check" -> CanCheck(input)
      [] decision.action = "raise" ->
            /\ FindAction(input, "raise") # <<>>
            /\ decision.amount # NoAmount
            /\ decision.amount >= FindAction(input, "raise")[1].min
            /\ decision.amount <= FindAction(input, "raise")[1].max
      [] decision.action = "allin" -> input.playerChips > 0
      [] OTHER -> FALSE

\* validateAction(decision, input)
validateAction(decision, input) ==
    CASE decision.action = "fold" -> TRUE
      [] decision.action = "check" -> CanCheck(input)
      [] decision.action = "call" ->
            \/ FindAction(input, "call") # <<>>
            \/ input.currentBet > input.playerBet /\ input.playerChips > 0
      [] decision.action = "raise" ->
            /\ FindAction(input, "raise") # <<>>
            /\ decision.amount # NoAmount
            /\ decision.amount >= FindAction(input, "raise")[1].min
            /\ decision.amount <= FindAction(input, "raise")[1].max
      [] decision.action = "allin" -> input.playerChips > 0
      [] OTHER -> FALSE

\* _safeFallback(input)
_safeFallback(input) ==
    IF CanCheck(input) THEN [action |-> "check", amount |-> NoAmount]
    ELSE IF input.callAmount > 0 THEN [action |-> "call", amount |-> NoAmount]
    ELSE [action |-> "fold", amount |-> NoAmount]

\* A tuning that takes whatever amount the model names.
TunedAnyAmount(input, sampledAction, targetSizing, llmResult) ==
    IF sampledAction = "raise" /\ FindAction(input, "raise") # <<>>
    THEN [action |-> "raise",
          amount |-> IF llmResult.parsed /\ llmResult.amount # NoAmount
                     THEN llmResult.amount ELSE targetSizing]
    ELSE IF sampledAction \in {"fold", "check"}
    THEN [action |-> sampledAction, amount |-> NoAmount]
    ELSE [action |-> "call", amount |-> NoAmount]

\* decide, from the sampled action to the validation: the decision before
\* the request and the tuning of a raise by the result of the request.
Tuned(input, sampledAction, targetSizing, llmResult) ==
    LET raiseInfo == FindAction(input, "raise")
        sizing == IF sampledAction = "raise" /\ raiseInfo # <<>> THEN targetSizing
                  ELSE NoAmount
        tuned == IF /\ llmResult.parsed
                    /\ sampledAction = "raise" /\ llmResult.amount # NoAmount
                    /\ raiseInfo # <<>>
                    /\ llmResult.amount >= raiseInfo[1].min
                    /\ llmResult.amount <= raiseInfo[1].max
                 THEN llmResult.amount ELSE sizing
    IN IF sampledAction = "raise" /\ sizing # NoAmount
       THEN [action |-> "raise", amount |-> tuned]
       ELSE IF sampledAction \in {"fold", "check"}
       THEN [action |-> sampledAction, amount |-> NoAmount]
       ELSE [action |-> "call", amount |-> NoAmount]

\* decide, from the sampled action on: validation and fallback.
Decided(input, sampledAction, targetSizing, llmResult) ==
    IF validateAction(Tuned(input, sampledAction, targetSizing, llmResult), input)
    THEN Tuned(input, sampledAction, targetSizing, llmResult)
    ELSE _safeFallback(input)

\* decide(game, playerId, personality): every decision it can return.
decide(g, playerId, personality) ==
    LET input == normalizeInput(g, playerId)
        pConfig == PERSONALITY_CONFIG[personality]
    IN {Decided(input, sampledAction, targetSizing, decideWithLLM(outcome)) :
          sampledAction \in sampleAction(computeActionMix(input, input.quality, pConfig)),
          targetSizing \in computeRaiseSizing(input, pConfig),
          outcome \in LLMOutcomes}

\* No decision under way.  Beside the locals of decide, a decision carries
\* the number of the hand it was taken in (hand), which the code does not
\* keep.
NoDecision ==
    [personality |-> "balanced", pc |-> "idle", timeout |-> FALSE, id |-> NoPlayer,
     hand |-> 0, input |-> <<>>,
     mix |-> <<>>, sampledAction |-> "", targetSizing |-> NoAmount,
     action |-> "", amount |-> NoAmount]


\* ------------------------------------------------------------------ the table

\* The stacks the seats are created with (addPlayer), in seat order.
Tables == {<<1, 5>>, <<4, 6>>, <<3, 2, 4>>}

PlayerIds == 0..3

Amounts == 0..MaxAmount

VARIABLES
    game,        \* the PokerGame instance
    call,        \* the last call made on it: the method, the player id passed
                 \* (-1 when it takes none), whether it succeeded, and for an
                 \* accepted handleAction the action
    handChips,   \* sum of the stacks when the current hand was started
    goneChips,   \* stacks taken along by the seats removed since then
    left,        \* number of playerDisconnected / removePlayer calls so far
    evaluation,  \* the five cards handed to HandEvaluator._evaluate5 on its
                 \* own and the score it returned, <<>> before it returns
    ai           \* the decision of an automated seat under way: where decide
                 \* stands, what it sampled and whether the abort timer of
                 \* its request is armed

vars == <<game, call, handChips, goneChips, left, evaluation, ai>>

\* No hand is being evaluated outside a game.
NoEvaluation == [cards |-> <<>>, score |-> <<>>]

\* A call starts with no callback fired yet.
Begin(g) == [g EXCEPT !.events = <<>>]

SumChips(g) == SumSeq([k \in 1..Len(g.players) |-> g.players[k].chips])

SumTotalBet(g) == SumSeq([k \in 1..Len(g.players) |-> g.players[k].totalBet])

Called(op, id, action, ok) == [op |-> op, id |-> id, action |-> action, ok |-> ok]

Init ==
    /\ \E stacks \in Tables : game = NewGame(stacks, Shuffle(1))
    /\ call = Called("new", -1, "", TRUE)
    /\ handChips = 0
    /\ goneChips = 0
    /\ left = 0
    /\ evaluation = NoEvaluation
    /\ ai = NoDecision

\* room:start, game:nextHand and the auto-start timer: game.startHand().
StartHand ==
    /\ ~game.threw
    /\ game.handNumber < MaxHands
    /\ \E shuffled \in Shuffles :
          \E r \in {startHand(Begin(game), shuffled)} :
             /\ game' = r.g
             /\ call' = Called("startHand", -1, "", r.ok)
             /\ handChips' = IF r.ok THEN SumChips(game) ELSE handChips
             /\ goneChips' = IF r.ok THEN 0 ELSE goneChips
    /\ UNCHANGED <<left, evaluation, ai>>

\* game:action, the timers and the AI callback: game.handleAction(...).
HandleAction ==
    /\ ~game.threw
    /\ \E id \in PlayerIds, action \in Actions \cup {"bet"}, amount \in Amounts :
          /\ action # "raise" => amount = 0
          /\ \E r \in {handleAction(Begin(game), id, action, amount)} :
                /\ game' = r.g
                /\ call' = Called("handleAction", id, IF r.ok THEN action ELSE "", r.ok)
    /\ UNCHANGED <<handChips, goneChips, left, evaluation, ai>>

\* game.playerDisconnected(id)
PlayerDisconnected ==
    /\ ~game.threw
    /\ left < MaxLeaves
    /\ \E id \in PlayerIds :
          /\ findIndex(game, id) # -1
          /\ game' = playerDisconnected(Begin(game), id)
          /\ call' = Called("playerDisconnected", id, "", TRUE)
    /\ left' = left + 1
    /\ UNCHANGED <<handChips, goneChips, evaluation, ai>>

\* Room.removePlayer(id): game.playerDisconnected(id), then game.removePlayer(id).
RemovePlayer ==
    /\ ~game.threw
    /\ left < MaxLeaves
    /\ \E id \in PlayerIds :
          /\ findIndex(game, id) # -1
          /\ \E g1 \in {playerDisconnected(Begin(game), id)} :
                /\ game' = IF g1.threw THEN g1 ELSE removePlayer(g1, id)
                /\ goneChips' = IF g1.threw THEN goneChips
                                ELSE goneChips + Seat(g1, findIndex(g1, id)).chips
          /\ call' = Called("removePlayer", id, "", TRUE)
    /\ left' = left + 1
    /\ UNCHANGED <<handChips, evaluation, ai>>

Next == StartHand \/ HandleAction \/ PlayerDisconnected \/ RemovePlayer

Spec == Init /\ [][Next]_vars

\* A table of four seats, where a hand of three can be played beside a seat
\* that sits out.
FourSeats == <<2, 2, 3, 2>>

InitFour ==
    /\ game = NewGame(FourSeats, Shuffle(1))
    /\ call = Called("new", -1, "", TRUE)
    /\ handChips = 0
    /\ goneChips = 0
    /\ left = 0
    /\ evaluation = NoEvaluation
    /\ ai = NoDecision

SpecFour == InitFour /\ [][Next]_vars

\* ------------------------------------------------------------------ the evaluator alone

\* The card values the hands evaluated on their own are drawn from: the ace,
\* and the five lowest values, in the four suits.
EvalValues == {14, 2, 3, 4, 5, 6}

\* Those cards, in ascending order of their number.
EvalDeck == SortedAsc({c \in Cards : CardValue(c) \in EvalValues})

\* Every hand of five of those cards, as _combinations lists them.
EvalCombos == combinations(EvalDeck, 5)

Hands5 == {EvalCombos[j] : j \in 1..Len(EvalCombos)}

InitEval ==
    /\ game = NewGame(<<>>, Shuffle(1))
    /\ call = Called("new", -1, "", TRUE)
    /\ handChips = 0
    /\ goneChips = 0
    /\ left = 0
    /\ \E cards \in Hands5 : evaluation = [cards |-> cards, score |-> <<>>]
    /\ ai = NoDecision

\* HandEvaluator._evaluate5(cards)
Evaluate5 ==
    /\ evaluation.cards # <<>> /\ evaluation.score = <<>>
    /\ evaluation' = [evaluation EXCEPT !.score = evaluate5(evaluation.cards)]
    /\ UNCHANGED <<game, call, handChips, goneChips, left, ai>>

NextEval == Evaluate5

SpecEval == InitEval /\ [][NextEval]_vars

\* Two sets of seven cards: three nines, three fives and an ace; the 2 to 7
\* of one suit and the ace of another.
SevenCards == {{7, 20, 33, 3, 16, 29, 12}, {0, 1, 2, 3, 4, 5, 25}}

\* The inputs of evaluate: 5 or 6 distinct cards of one of those sets in
\* every order, and the seven as two hole cards, in every order, before the
\* other five in ascending or descending order.
EvalInputs ==
    UNION {UNION {{s \in [1..n -> D] : \A i, j \in 1..n : i # j => s[i] # s[j]}
                  : n \in 5..6}
           \cup UNION {UNION {{<<a, b>> \o SortedAsc(D \ {a, b}),
                                <<a, b>> \o SortDesc(SortedAsc(D \ {a, b}))}
                               : b \in D \ {a}}
                        : a \in D}
           : D \in SevenCards}

InitBest ==
    /\ game = NewGame(<<>>, Shuffle(1))
    /\ call = Called("new", -1, "", TRUE)
    /\ handChips = 0
    /\ goneChips = 0
    /\ left = 0
    /\ \E cards \in EvalInputs :
          evaluation = [cards |-> cards, score |-> <<>>, bestCards |-> <<>>]
    /\ ai = NoDecision

\* HandEvaluator.evaluate(cards)
Evaluate ==
    /\ evaluation.cards # <<>> /\ evaluation.score = <<>>
    /\ \E r \in {evaluate(evaluation.cards)} :
          evaluation' = [evaluation EXCEPT !.score = r.score,
                                           !.bestCards = r.bestCards]
    /\ UNCHANGED <<game, call, handChips, goneChips, left, ai>>

NextBest == Evaluate

SpecBest == InitBest /\ [][NextBest]_vars

\* ------------------------------------------------------------------ the table with an automated seat

\* The ids of the automated seats, those that start with AI_ID_PREFIX.
AISeats == {1}

\* Stacks around five big blinds, so that the automated seat is under them
\* at some of its turns and not at others.
AITables == {<<11, 13>>}

InitAI ==
    /\ \E stacks \in AITables : game = NewGame(stacks, Shuffle(1))
    /\ call = Called("new", -1, "", TRUE)
    /\ handChips = 0
    /\ goneChips = 0
    /\ left = 0
    /\ evaluation = NoEvaluation
    /\ \E personality \in Personalities :
          ai = [NoDecision EXCEPT !.personality = personality]

\* game:action and the action timer: game.handleAction(...) for a seat with
\* a socket.
HumanAction ==
    /\ ~game.threw
    /\ \E id \in {Seat(game, i).id : i \in Indexes(game)} \ AISeats,
          action \in Actions \cup {"bet"}, amount \in Amounts :
          /\ action # "raise" => amount = 0
          /\ \E r \in {handleAction(Begin(game), id, action, amount)} :
                /\ game' = r.g
                /\ call' = Called("handleAction", id, IF r.ok THEN action ELSE "", r.ok)
    /\ UNCHANGED <<handChips, goneChips, left, evaluation, ai>>

\* The guard of checkAndScheduleAIAction and of its timer.
AITurn(g) ==
    /\ g.stage \in BettingStages
    /\ g.currentPlayerIndex \in Indexes(g)
    /\ Seat(g, g.currentPlayerIndex).id \in AISeats
    /\ IsActionable(Seat(g, g.currentPlayerIndex))

\* The timer of checkAndScheduleAIAction fires: decide runs up to the
\* request it sends, with the abort timer armed.
AIDecide ==
    /\ ~game.threw
    /\ ai.pc = "idle"
    /\ AITurn(game)
    /\ \E id \in {Seat(game, game.currentPlayerIndex).id} :
       \E input \in {normalizeInput(game, id)} :
       \E mix \in {computeActionMix(input, input.quality, PERSONALITY_CONFIG[ai.personality])} :
       \E sampledAction \in sampleAction(mix) :
       \E targetSizing \in computeRaiseSizing(input, PERSONALITY_CONFIG[ai.personality]) :
          ai' = [ai EXCEPT !.pc = "fetch", !.timeout = TRUE, !.id = id,
                           !.hand = game.handNumber,
                           !.input = input, !.mix = mix,
                           !.sampledAction = sampledAction,
                           !.targetSizing = IF sampledAction = "raise" THEN targetSizing
                                            ELSE NoAmount]
    /\ UNCHANGED <<game, call, handChips, goneChips, left, evaluation>>

\* decide after decideWithLLM returned: tuning, validation and fallback.
Returned(outcome) ==
    \E decision \in {Decided(ai.input, ai.sampledAction, ai.targetSizing,
                             decideWithLLM(outcome))} :
       ai' = [ai EXCEPT !.pc = "ready", !.timeout = FALSE,
                        !.action = decision.action, !.amount = decision.amount]

\* await fetch(...) settles: the request fails, or the status line arrives
\* and the abort timer is cleared.
LLMFetch ==
    /\ ai.pc = "fetch"
    /\ \/ Returned([kind |-> "network", amount |-> NoAmount])
       \/ Returned([kind |-> "http_error", amount |-> NoAmount])
       \/ ai' = [ai EXCEPT !.pc = "body", !.timeout = FALSE]
    /\ UNCHANGED <<game, call, handChips, goneChips, left, evaluation>>

\* The abort timer fires while it is armed.
LLMTimeout ==
    /\ ai.pc \in {"fetch", "body"}
    /\ ai.timeout
    /\ Returned([kind |-> "timeout", amount |-> NoAmount])
    /\ UNCHANGED <<game, call, handChips, goneChips, left, evaluation>>

\* await res.json() settles.
LLMBody ==
    /\ ai.pc = "body"
    /\ \E outcome \in LLMOutcomes :
          /\ outcome.kind \in {"invalid_json", "empty", "unparsable", "parsed"}
          /\ Returned(outcome)
    /\ UNCHANGED <<game, call, handChips, goneChips, left, evaluation>>

\* onActionReady of scheduleAIAction: handleAction with the decision, and a
\* fold when it is refused.
AISubmit ==
    /\ ~game.threw
    /\ ai.pc = "ready"
    /\ \E r \in {handleAction(Begin(game), ai.id, ai.action,
                              IF ai.action = "raise" THEN ai.amount ELSE 0)} :
          IF r.ok
          THEN /\ game' = r.g
               /\ call' = Called("handleAction", ai.id, ai.action, TRUE)
          ELSE \E f \in {handleAction(Begin(game), ai.id, "fold", 0)} :
                  /\ game' = f.g
                  /\ call' = Called("handleAction", ai.id, IF f.ok THEN "fold" ELSE "", f.ok)
    /\ ai' = [NoDecision EXCEPT !.personality = ai.personality]
    /\ UNCHANGED <<handChips, goneChips, left, evaluation>>

\* room:start: the first hand of the table.
RoomStart == game.handNumber = 0 /\ StartHand

\* The host's next-hand button, which the client shows once a hand is over,
\* and the auto-start timer armed by onHandComplete: game.startHand().
NextHand == game.stage \in {"WAITING", "SHOWDOWN"} /\ StartHand

\* room:leave of a seat with a socket: Room.removePlayer(id).
HumanLeave == RemovePlayer /\ call'.id \notin AISeats

NextAI ==
    \/ RoomStart
    \/ HumanAction
    \/ PlayerDisconnected
    \/ RemovePlayer
    \/ AIDecide
    \/ LLMFetch
    \/ LLMTimeout
    \/ LLMBody
    \/ AISubmit

SpecAI == InitAI /\ [][NextAI]_vars

\* A table of three where the automated seat sits between two others, and
\* hands follow one another.
TurnTables == {<<3, 3, 3>>}

InitTurn ==
    /\ \E stacks \in TurnTables : game = NewGame(stacks, Shuffle(1))
    /\ call = Called("new", -1, "", TRUE)
    /\ handChips = 0
    /\ goneChips = 0
    /\ left = 0
    /\ evaluation = NoEvaluation
    /\ ai = NoDecision

NextTurn ==
    \/ NextHand
    \/ HumanAction
    \/ HumanLeave
    \/ AIDecide
    \/ LLMFetch
    \/ LLMTimeout
    \/ LLMBody
    \/ AISubmit

SpecTurn == InitTurn /\ [][NextTurn]_vars

\* ------------------------------------------------------------------ properties

\* What a caller may pass to handleAction: a player id, an action name (one
\* of them unknown to the engine) and, for a raise, the amount.
Inputs ==
    {t \in PlayerIds \X (Actions \cup {"bet"}) \X Amounts :
        t[2] # "raise" => t[3] = 0}

\* handleAction(id, action, amount) called in the current state.
Try(t) == handleAction(Begin(game), t[1], t[2], t[3])

\* The engine states in which the effect of an accepted action is read: as
\* the handler leaves it when onPlayerAction fires, before the turn advances,
\* and as handleAction returns it when the street goes on.
Effect(r) == {r.seen} \cup (IF r.g.stage = game.stage THEN {r.g} ELSE {})

InHand == game.stage \in BettingStages /\ ~game.threw

\* The seat that made the last call.
Caller == Seat(game, findIndex(game, call.id))

HandledOk(action) ==
    /\ call.op = "handleAction" /\ call.ok /\ call.action = action
    /\ findIndex(game, call.id) # -1

\* The highest bet of the street among the seats other than index i.
MaxBetOfOthers(g, i) ==
    MaxBetFrom([k \in 1..Len(g.players) |->
                   IF k = i + 1 THEN [g.players[k] EXCEPT !.bet = 0]
                   ELSE g.players[k]], 1)

\* C1: during a hand, from startHand until the pot is paid out, pot equals the
\* sum of totalBet over all seats of the engine, after every call.
C1_PotIsSumOfTotalBets == InHand => game.pot = SumTotalBet(game)

\* C2: once the pot has been paid out, the stacks of the seats (with those the
\* removed seats took along) add up to the sum of the stacks just before the
\* hand's startHand.
C2_ChipsConserved ==
    (game.stage = "SHOWDOWN" /\ ~game.threw) => SumChips(game) + goneChips = handChips

\* C3: a handleAction call that returns a rejection leaves the whole engine
\* state as it was.
C3_RejectionChangesNothing ==
    \A t \in Inputs :
        LET r == Try(t)
        IN ~r.ok => r.g = Begin(game) /\ r.seen = Begin(game)

\* C3 witness: the seat whose turn it is, able to act, has just been rejected
\* (by the handler of its action).
C3_Witness ==
    /\ InHand
    /\ call.op = "handleAction" /\ ~call.ok
    /\ findIndex(game, call.id) = game.currentPlayerIndex
    /\ IsActionable(Caller)

\* C4: handleAction is rejected, whatever the action, when the stage is
\* WAITING or SHOWDOWN, when the caller is not the seat at the current-actor
\* pointer, and when the caller is folded, all-in or sitting out.
C4_RejectedWhenNotAllowed ==
    \A t \in Inputs :
        LET idx == findIndex(game, t[1])
        IN (\/ game.stage \in {"WAITING", "SHOWDOWN"}
            \/ idx # game.currentPlayerIndex
            \/ idx # -1 /\ ~IsActionable(Seat(game, idx)))
           => ~Try(t).ok

\* C4 witness: during a hand the seat at the current-actor pointer, being
\* all-in, has just been rejected.
C4_Witness ==
    /\ InHand
    /\ call.op = "handleAction" /\ ~call.ok
    /\ findIndex(game, call.id) = game.currentPlayerIndex
    /\ findIndex(game, call.id) # -1
    /\ Caller.allIn

\* C5: in every betting stage the current-actor pointer designates an
\* existing seat that is not folded, not all-in and not sitting out, so that
\* its fold is accepted.
C5_CurrentActorCanAct ==
    InHand =>
        /\ game.currentPlayerIndex \in Indexes(game)
        /\ IsActionable(Seat(game, game.currentPlayerIndex))
        /\ Try(<<Seat(game, game.currentPlayerIndex).id, "fold", 0>>).ok

\* C6: a short all-in (the whole stack committed, the new bet above the
\* maximum bet by less than lastRaiseSize) leaves the acted flag of every
\* other seat as it was, through 'allin' and through a 'raise' to bet + chips.
C6_ShortAllInKeepsActed ==
    \A t \in Inputs :
        LET r == Try(t)
            idx == findIndex(game, t[1])
            newBet == Seat(game, idx).bet + Seat(game, idx).chips
            maxBet == _getCurrentMaxBet(game)
        IN (/\ r.ok
            /\ t[2] = "allin" \/ (t[2] = "raise" /\ t[3] = newBet)
            /\ newBet > maxBet
            /\ newBet - maxBet < game.lastRaiseSize)
           => \A s \in Effect(r) : \A k \in 1..Len(game.players) :
                  k # idx + 1 => s.players[k].acted = game.players[k].acted

\* C7: after an accepted raise, or an all-in whose new bet exceeds the maximum
\* bet by at least lastRaiseSize (equality included), acted is false on every
\* other seat that is not folded, all-in or sitting out, acted is true on the
\* acting seat, and the last raiser is the acting seat.
C7_RaiseReopensAction ==
    \A t \in Inputs :
        LET r == Try(t)
            idx == findIndex(game, t[1])
            newBet == Seat(game, idx).bet + Seat(game, idx).chips
            maxBet == _getCurrentMaxBet(game)
        IN (/\ r.ok
            /\ \/ t[2] = "raise"
               \/ t[2] = "allin" /\ newBet > maxBet
                                 /\ newBet - maxBet >= game.lastRaiseSize)
           => \A s \in Effect(r) :
                 /\ \A k \in 1..Len(s.players) :
                        (k # idx + 1 /\ IsActionable(s.players[k]))
                            => ~s.players[k].acted
                 /\ s.players[idx + 1].acted
                 /\ s.lastRaiserIndex = idx

\* C7 witness: an all-in that raised by exactly lastRaiseSize has just been
\* accepted, and another seat has still to answer it.
C7_Witness ==
    /\ InHand
    /\ HandledOk("allin")
    /\ game.lastRaiserIndex = findIndex(game, call.id)
    /\ Caller.bet = MaxBetOfOthers(game, findIndex(game, call.id)) + bigBlind
    /\ game.lastRaiseSize = bigBlind
    /\ \E k \in 1..Len(game.players) :
           /\ k # findIndex(game, call.id) + 1
           /\ IsActionable(game.players[k])
           /\ ~game.players[k].acted

\* C8: a raise to the amount A is accepted only if A is above the maximum
\* bet, A minus the seat's bet is within its chips, and A reaches the maximum
\* bet plus lastRaiseSize or commits the whole stack; once accepted the seat's
\* bet is A, and chips, totalBet and pot have moved by A minus the former bet.
C8_RaiseToAmount ==
    \A t \in Inputs :
        LET r == Try(t)
            idx == findIndex(game, t[1])
            p == Seat(game, idx)
            maxBet == _getCurrentMaxBet(game)
            A == t[3]
        IN (r.ok /\ t[2] = "raise")
           => /\ A > maxBet
              /\ A - p.bet <= p.chips
              /\ A >= maxBet + game.lastRaiseSize \/ A - p.bet = p.chips
              /\ \A s \in Effect(r) :
                    /\ s.players[idx + 1].bet = A
                    /\ s.players[idx + 1].chips = p.chips - (A - p.bet)
                    /\ s.players[idx + 1].totalBet = p.totalBet + (A - p.bet)
                    /\ s.pot = game.pot + (A - p.bet)

\* C8 witness: a raise that kept chips behind has just been accepted and
\* awaits an answer.
C8_Witness ==
    /\ InHand
    /\ HandledOk("raise")
    /\ Caller.chips > 0
    /\ Caller.bet > MaxBetOfOthers(game, findIndex(game, call.id))
    /\ game.currentPlayerIndex # findIndex(game, call.id)

\* C9: a check by the seat whose turn it is is accepted if and only if the
\* seat's bet equals the maximum bet; an accepted check moves no chips and,
\* before the turn advances, only sets the seat's acted flag.
C9_CheckWhenBetMatched ==
    \A id \in PlayerIds :
        LET r == Try(<<id, "check", 0>>)
            idx == findIndex(game, id)
        IN (/\ InHand
            /\ idx # -1
            /\ idx = game.currentPlayerIndex
            /\ IsActionable(Seat(game, idx)))
           => /\ r.ok <=> Seat(game, idx).bet = _getCurrentMaxBet(game)
              /\ r.ok => /\ [r.seen EXCEPT !.events = <<>>]
                              = [Begin(game) EXCEPT !.players[idx + 1].acted = TRUE]
                         /\ r.g.stage = game.stage =>
                                [k \in 1..Len(r.g.players) |-> r.g.players[k].chips]
                                    = [k \in 1..Len(game.players) |-> game.players[k].chips]

\* C9 witness: after the flop, no seat having left the table, a check has
\* just been accepted and the turn has passed to another seat of the street.
C9_Witness ==
    /\ game.stage \in {"FLOP", "TURN", "RIVER"} /\ ~game.threw
    /\ HandledOk("check")
    /\ Caller.acted
    /\ game.currentPlayerIndex # findIndex(game, call.id)
    /\ left = 0

\* C10: an accepted call moves exactly min(maxBet - bet, chips) from the
\* seat's chips to its bet, its totalBet and the pot; the seat is all-in
\* exactly when this leaves it no chips; the maximum bet does not rise and no
\* other seat changes.
C10_CallMovesTheDifference ==
    \A id \in PlayerIds :
        LET r == Try(<<id, "call", 0>>)
            idx == findIndex(game, id)
            p == Seat(game, idx)
            maxBet == _getCurrentMaxBet(game)
            moved == Min2(maxBet - p.bet, p.chips)
        IN r.ok =>
              \A s \in Effect(r) :
                 /\ s.players[idx + 1].chips = p.chips - moved
                 /\ s.players[idx + 1].bet = p.bet + moved
                 /\ s.players[idx + 1].totalBet = p.totalBet + moved
                 /\ s.pot = game.pot + moved
                 /\ s.players[idx + 1].allIn <=> (p.chips - moved = 0)
                 /\ _getCurrentMaxBet(s) = maxBet
                 /\ \A k \in 1..Len(game.players) :
                        k # idx + 1 => s.players[k] = game.players[k]

\* C10 witness: a call for less than the bet it faced has just been accepted:
\* it took the seat's last chips.
C10_Witness ==
    /\ InHand
    /\ HandledOk("call")
    /\ Caller.allIn
    /\ Caller.bet < MaxBetOfOthers(game, findIndex(game, call.id))

\* The snapshot entries for the action a (none or one).
Offered(acts, a) == SelectSeq(acts, LAMBDA x : x.action = a)

\* C11: the legal actions are attached to a snapshot only for the seat whose
\* turn it is in a betting stage, and then they are: fold; check iff the
\* seat's bet matches the maximum bet, otherwise call with
\* min(maxBet - bet, chips); raise iff bet + chips > maxBet, with
\* min = min(maxBet + lastRaiseSize, bet + chips) and max = bet + chips;
\* all-in iff chips > 0.
C11_LegalActions ==
    \A id \in PlayerIds \cup {NoPlayer} :
        LET acts == getGameState(game, id).availableActions
            idx == findIndex(game, id)
            p == Seat(game, idx)
            maxBet == _getCurrentMaxBet(game)
        IN /\ acts # <<>> <=> /\ id # NoPlayer
                               /\ game.stage \in BettingStages
                               /\ idx = game.currentPlayerIndex
           /\ acts # <<>> =>
                 /\ \A a \in Actions : Len(Offered(acts, a)) <= 1
                 /\ Len(Offered(acts, "fold")) = 1
                 /\ Len(Offered(acts, "check")) = 1 <=> p.bet = maxBet
                 /\ Len(Offered(acts, "call")) = 1 <=> p.bet # maxBet
                 /\ \A x \in {Offered(acts, "call")[k] : k \in 1..Len(Offered(acts, "call"))} :
                        x.amount = Min2(maxBet - p.bet, p.chips)
                 /\ Len(Offered(acts, "raise")) = 1 <=> p.bet + p.chips > maxBet
                 /\ \A x \in {Offered(acts, "raise")[k] : k \in 1..Len(Offered(acts, "raise"))} :
                        /\ x.min = Min2(maxBet + game.lastRaiseSize, p.bet + p.chips)
                        /\ x.max = p.bet + p.chips
                 /\ Len(Offered(acts, "allin")) = 1 <=> p.chips > 0

\* C11 witness: the seat whose turn it is faces a bet it can exceed only by
\* less than the minimum raise, and its snapshot offers that raise.
C11_Witness ==
    /\ InHand
    /\ game.currentPlayerIndex \in Indexes(game)
    /\ LET p == Seat(game, game.currentPlayerIndex)
           maxBet == _getCurrentMaxBet(game)
           acts == getGameState(game, p.id).availableActions
       IN /\ IsActionable(p)
          /\ p.bet < maxBet
          /\ p.bet + p.chips > maxBet
          /\ p.bet + p.chips < maxBet + game.lastRaiseSize
          /\ Len(Offered(acts, "raise")) = 1
          /\ Offered(acts, "raise")[1].min = Offered(acts, "raise")[1].max

\* The seats startHand counts as eligible: a positive stack, not disconnected.
EligibleSeats(g) ==
    {i \in Indexes(g) : Seat(g, i).chips > 0 /\ ~Seat(g, i).disconnected}

\* C12: startHand called with fewer than two eligible seats returns failure
\* and leaves the whole engine as it was.
C12_StartHandNeedsTwo ==
    \A shuffled \in Shuffles :
        Cardinality(EligibleSeats(game)) < 2 =>
            /\ ~startHand(Begin(game), shuffled).ok
            /\ startHand(Begin(game), shuffled).g = Begin(game)

\* C12 witness: startHand has just returned failure, one seat of a played
\* hand being the only eligible one left.
C12_Witness ==
    /\ call.op = "startHand" /\ ~call.ok /\ ~game.threw
    /\ game.handNumber >= 1
    /\ Cardinality(EligibleSeats(game)) = 1

\* The seats that take part in the hand of g (not sitting out, not folded).
SeatsInHand(g) == {i \in Indexes(g) : IsActive(Seat(g, i))}

\* The seats strictly between a and b, walking clockwise from a.
Between(g, a, b) ==
    {(a + k) % NumPlayers(g) : k \in 1..((b - a - 1) % NumPlayers(g))}

\* The first seat of the set seats met clockwise after seat a.
FirstAfter(g, a, seats) ==
    CHOOSE s \in seats : Between(g, a, s) \cap seats = {}

\* The blinds and the first actor of a hand just started from before, sb
\* and bb being the seats expected to post.
BlindsPosted(before, g, sb, bb, actor) ==
    /\ sb # bb
    /\ Seat(g, sb).isSB /\ Seat(g, bb).isBB
    /\ Seat(g, sb).bet = Min2(smallBlind, Seat(before, sb).chips)
    /\ Seat(g, bb).bet = Min2(bigBlind, Seat(before, bb).chips)
    /\ \A i \in Indexes(g) :
          /\ Seat(g, i).isSB <=> i = sb
          /\ Seat(g, i).isBB <=> i = bb
          /\ i \notin {sb, bb} => Seat(g, i).bet = 0
          /\ Seat(g, i).totalBet = Seat(g, i).bet
          /\ Seat(g, i).chips = Seat(before, i).chips - Seat(g, i).bet
    /\ g.pot = Seat(g, sb).bet + Seat(g, bb).bet
    /\ g.currentPlayerIndex = actor

\* C13: after a successful startHand the stage is PRE_FLOP, every seat in
\* the hand holds two cards, each blind posted is min(blind, stack); with two
\* seats in the hand the dealer posted the small blind, the other seat the
\* big blind and the dealer is to act; with three or more the two seats in
\* the hand clockwise of the dealer posted them and the seat in the hand
\* after the big blind is to act.
C13_BlindsAndFirstActor ==
    \A shuffled \in Shuffles :
        \A r \in {startHand(Begin(game), shuffled)} :
            r.ok =>
                /\ r.g.stage = "PRE_FLOP"
                /\ \A i \in Indexes(r.g) :
                      Len(Seat(r.g, i).hand) = (IF i \in SeatsInHand(r.g) THEN 2 ELSE 0)
                /\ Cardinality(SeatsInHand(r.g)) >= 2
                /\ IF Cardinality(SeatsInHand(r.g)) = 2
                   THEN /\ r.g.dealerIndex \in SeatsInHand(r.g)
                        /\ \E other \in SeatsInHand(r.g) \ {r.g.dealerIndex} :
                              BlindsPosted(Begin(game), r.g, r.g.dealerIndex, other,
                                           r.g.dealerIndex)
                   ELSE \E sb \in {FirstAfter(r.g, r.g.dealerIndex, SeatsInHand(r.g))} :
                          \E bb \in {FirstAfter(r.g, sb, SeatsInHand(r.g))} :
                             BlindsPosted(Begin(game), r.g, sb, bb,
                                          FirstAfter(r.g, bb, SeatsInHand(r.g)))

\* C13 witness: a hand of three seats has just started and the big blind
\* could not be posted in full.
C13_Witness ==
    /\ call.op = "startHand" /\ call.ok
    /\ Cardinality(SeatsInHand(game)) = 3
    /\ \E i \in Indexes(game) :
          Seat(game, i).isBB /\ Seat(game, i).bet < bigBlind /\ Seat(game, i).allIn

Outcomes ==
    {Try(t).g : t \in Inputs}
        \cup {playerDisconnected(Begin(game), id) : id \in PlayerIds}

\* The chips that the seat of player id holds in g, 0 when it has no seat.
ChipsOf(g, id) == IF findIndex(g, id) = -1 THEN 0 ELSE Seat(g, findIndex(g, id)).chips

\* C15: throughout a hand a seat flagged sittingOut holds no hole cards, has
\* bet = 0 and totalBet = 0, posted no blind, is not designated by the
\* current-actor pointer and receives no chips from a pot.
C15_SittingOutTakesNoPart ==
    ~game.threw /\ game.stage # "WAITING" =>
        \A i \in Indexes(game) :
            Seat(game, i).sittingOut =>
                /\ Seat(game, i).hand = <<>>
                /\ Seat(game, i).bet = 0 /\ Seat(game, i).totalBet = 0
                /\ ~Seat(game, i).isSB /\ ~Seat(game, i).isBB
                /\ game.stage \in BettingStages => game.currentPlayerIndex # i
                /\ \A g2 \in Outcomes :
                      findIndex(g2, Seat(game, i).id) # -1 =>
                          ChipsOf(g2, Seat(game, i).id) = Seat(game, i).chips

\* The engine g with nothing but the disconnected flag of seat idx set.
FlaggedDisconnected(g, idx) == [g EXCEPT !.players[idx + 1].disconnected = TRUE]

\* C16: in a betting stage, disconnecting a seat whose turn it is not sets
\* its disconnected flag and changes nothing else (folded flags, pot, stacks,
\* stage and current-actor pointer stay); the seat whose turn it is gets
\* folded, by a fold passed to handleAction.
C16_DisconnectOnlyFlags ==
    InHand =>
        \A id \in PlayerIds :
            \A idx \in {findIndex(game, id)} \ {-1} :
                IF idx # game.currentPlayerIndex
                THEN playerDisconnected(Begin(game), id)
                         = FlaggedDisconnected(Begin(game), idx)
                ELSE playerDisconnected(Begin(game), id)
                         \in {FlaggedDisconnected(Begin(game), idx),
                              handleAction(FlaggedDisconnected(Begin(game), idx),
                                           id, "fold", 0).g}

\* Hole cards to put in the place of those a seat holds: none, and two pairs
\* of cards from the two ends of the deck.
OtherHands == {<<>>, <<0, 1>>, <<50, 51>>}

\* The engine g where every seat but the one at index idx holds hand.
WithOtherHands(g, idx, hand) ==
    [g EXCEPT !.players = [k \in 1..Len(g.players) |->
                              IF k = idx + 1 THEN g.players[k]
                              ELSE [g.players[k] EXCEPT !.hand = hand]]]

\* C17: in a betting stage the snapshot taken for a seat is the same whatever
\* hole cards the other seats hold, and in every stage a snapshot shows the
\* hole cards of a seat other than the one it is taken for only in stage
\* SHOWDOWN and only when that seat has not folded.
C17_SnapshotHidesOtherHands ==
    /\ InHand =>
          \A id \in PlayerIds :
              \A idx \in {findIndex(game, id)} \ {-1} :
                  \A hand \in OtherHands :
                      getGameState(WithOtherHands(game, idx, hand), id)
                          = getGameState(game, id)
    /\ \A id \in PlayerIds \cup {NoPlayer} :
          \A k \in 1..Len(game.players) :
              (game.players[k].id # id /\ getGameState(game, id).players[k].hand # <<>>)
                  => (game.stage = "SHOWDOWN" /\ ~game.players[k].folded)

\* C17 witness: on the flop, after an accepted action, two seats not folded
\* hold two cards each and the snapshot of the first shows its own hand and
\* none for the second.
C17_Witness ==
    /\ InHand /\ game.stage = "FLOP" /\ call.op = "handleAction" /\ call.ok
    /\ \E i, j \in Indexes(game) :
          /\ i # j
          /\ Len(Seat(game, i).hand) = 2 /\ Len(Seat(game, j).hand) = 2
          /\ ~Seat(game, i).folded /\ ~Seat(game, j).folded
          /\ getGameState(game, Seat(game, i).id).players[i + 1].hand = Seat(game, i).hand
          /\ getGameState(game, Seat(game, i).id).players[j + 1].hand = <<>>

\* The seats counted by _calculateSidePots: not sitting out, with chips in
\* the hand.
Contributors(g) == SelectSeq(getPlayersInHand(g), LAMBDA i : Seat(g, i).totalBet > 0)

\* The distinct contribution levels of g, ascending.
BetLevels(g) ==
    SortedAsc({Seat(g, Contributors(g)[k]).totalBet : k \in 1..Len(Contributors(g))})

\* The slices of g, one per level, before those with the same eligible seats
\* are merged.
Slices(g) == LevelPots(g, Contributors(g), BetLevels(g), 1, 0)

\* The seats of g whose contribution reached the level.
Reached(g, level) == {i \in Indexes(g) : ~Seat(g, i).sittingOut /\ Seat(g, i).totalBet >= level}

\* The last call was answered by a showdown: it fired onShowdown and left the
\* stage SHOWDOWN with at least two seats not folded.  The showdown leaves
\* pot, totalBet and folded as it found them.
ShowdownDone ==
    /\ ~game.threw /\ game.stage = "SHOWDOWN"
    /\ call.op \in {"handleAction", "playerDisconnected"} /\ call.ok
    /\ \E e \in 1..Len(game.events) : game.events[e] = "onShowdown"
    /\ Len(getActivePlayers(game)) >= 2

\* C18: at showdown the amounts of the side pots sum to the pot, the slice of
\* each level is the increment from the level below times the number of seats
\* that reached the level, and a seat not folded is eligible for a slice
\* exactly when its totalBet reached the level of the slice.
C18_SidePotsPartitionThePot ==
    ShowdownDone =>
        /\ SumSeq([k \in 1..Len(_calculateSidePots(game)) |->
                      _calculateSidePots(game)[k].amount]) = game.pot
        /\ SumSeq([k \in 1..Len(Slices(game)) |-> Slices(game)[k].amount]) = game.pot
        /\ Len(Slices(game)) = Len(BetLevels(game))
        /\ \A k \in 1..Len(Slices(game)) :
              /\ Slices(game)[k].amount
                     = (BetLevels(game)[k] - (IF k = 1 THEN 0 ELSE BetLevels(game)[k - 1]))
                       * Cardinality(Reached(game, BetLevels(game)[k]))
              /\ \A i \in Indexes(game) :
                    ~Seat(game, i).folded =>
                        ((\E e \in 1..Len(Slices(game)[k].eligible) :
                              Slices(game)[k].eligible[e] = i)
                            <=> i \in Reached(game, BetLevels(game)[k]))

\* The seats that tie for the best hand of a pot of g.
TiedWinners(g, pot) ==
    {i \in Indexes(g) :
        \E e \in 1..Len(Evaluated(g, pot)) :
            /\ Evaluated(g, pot)[e] = i
            /\ \A f \in 1..Len(Evaluated(g, pot)) :
                  compareScores(ScoreOf(g, i), ScoreOf(g, Evaluated(g, pot)[f])) >= 0}

\* What seat i is due from a pot whose odd chips go to the tied winner met
\* first clockwise from the dealer's left.
DueFrom(g, pot, i) ==
    IF i \notin TiedWinners(g, pot) THEN 0
    ELSE (pot.amount \div Cardinality(TiedWinners(g, pot)))
         + (IF i = FirstAfter(g, g.dealerIndex, TiedWinners(g, pot))
            THEN pot.amount % Cardinality(TiedWinners(g, pot)) ELSE 0)

\* What the showdown of g reported as paid to seat i.
PaidTo(g, i) ==
    SumSeq([r \in 1..Len(g.winners) |->
               IF g.winners[r].id = Seat(g, i).id THEN g.winners[r].amount ELSE 0])

\* C19: a showdown pays every seat, pot by pot, its even share of the pots it
\* ties for, and the odd chips of each pot to the tied winner that comes
\* first in seating order from the dealer's left.
C19_OddChipFromDealersLeft ==
    ShowdownDone =>
        \A i \in Indexes(game) :
            PaidTo(game, i)
                = SumSeq([k \in 1..Len(_calculateSidePots(game)) |->
                             DueFrom(game, _calculateSidePots(game)[k], i)])

\* The five cards are an ace, a 2, a 3, a 4 and a 5.
IsWheel(cards) == {CardValue(cards[i]) : i \in 1..5} = {14, 2, 3, 4, 5}

\* The five cards are a 2, a 3, a 4, a 5 and a 6.
IsSixHigh(cards) == {CardValue(cards[i]) : i \in 1..5} = {2, 3, 4, 5, 6}

\* Three cards of one value beside two cards of two other values.
IsTrips(cards) ==
    /\ Cardinality({CardValue(cards[i]) : i \in 1..5}) = 3
    /\ \E i \in 1..5 :
          Cardinality({j \in 1..5 : CardValue(cards[j]) = CardValue(cards[i])}) = 3

Suited(cards) == Cardinality({CardSuit(cards[i]) : i \in 1..5}) = 1

\* What _evaluate5 returns for each wheel.
WheelScores == [w \in {h \in Hands5 : IsWheel(h)} |-> evaluate5(w)]

\* C20: five cards A, 2, 3, 4, 5 evaluate as a straight, a straight flush
\* when suited, with high card 5; every wheel compares strictly below every
\* 6-high straight of its category and strictly above every three of a kind.
C20_WheelIsFiveHigh ==
    evaluation.score # <<>> =>
        /\ IsWheel(evaluation.cards) =>
              evaluation.score
                  = <<IF Suited(evaluation.cards) THEN STRAIGHT_FLUSH ELSE STRAIGHT, 5>>
        /\ IsSixHigh(evaluation.cards) =>
              \A w \in DOMAIN WheelScores :
                  Suited(w) = Suited(evaluation.cards) =>
                      /\ compareScores(WheelScores[w], evaluation.score) < 0
                      /\ compareScores(evaluation.score, WheelScores[w]) > 0
        /\ IsTrips(evaluation.cards) =>
              \A w \in DOMAIN WheelScores :
                  /\ compareScores(WheelScores[w], evaluation.score) > 0
                  /\ compareScores(evaluation.score, WheelScores[w]) < 0

\* C20 witness: a wheel of more than one suit has been evaluated.
C20_Witness ==
    /\ evaluation.score # <<>>
    /\ IsWheel(evaluation.cards) /\ ~Suited(evaluation.cards)

\* The set of the elements of a sequence.
Range(s) == {s[i] : i \in 1..Len(s)}

\* What _evaluate5 returns for each set of five of the cards evaluated.
FiveScores ==
    [S \in {T \in UNION {SUBSET D : D \in SevenCards} : Cardinality(T) = 5}
        |-> evaluate5(SortedAsc(S))]

\* What evaluate returns for each set of 5 to 7 of them, given in ascending
\* order.
InOrder ==
    [S \in {T \in UNION {SUBSET D : D \in SevenCards} : Cardinality(T) \in 5..7}
        |-> evaluate(SortedAsc(S))]

\* The score of the hand evaluated is the greatest, under compareScores, of
\* the scores _evaluate5 gives the sets of five of its cards, and the cards
\* returned are five of its cards with that score.
BestOfFive ==
    /\ \A S \in DOMAIN FiveScores :
          S \subseteq Range(evaluation.cards) =>
              compareScores(evaluation.score, FiveScores[S]) >= 0
    /\ Len(evaluation.bestCards) = 5
    /\ Cardinality(Range(evaluation.bestCards)) = 5
    /\ Range(evaluation.bestCards) \subseteq Range(evaluation.cards)
    /\ evaluate5(evaluation.bestCards) = evaluation.score

\* C21 as stated: the score and the five cards evaluate returns are the best
\* of the sets of five cards, and neither depends on the order of the input.
C21_BestFiveAnyOrder ==
    evaluation.score # <<>> =>
        /\ BestOfFive
        /\ evaluation.score = InOrder[Range(evaluation.cards)].score
        /\ Range(evaluation.bestCards) = Range(InOrder[Range(evaluation.cards)].bestCards)

\* C21 amended: the score evaluate returns is the best of the sets of five
\* cards and does not depend on the order of the input; the five cards are
\* five of the input with that score.
C21_BestFiveScoreAnyOrder ==
    evaluation.score # <<>> =>
        /\ BestOfFive
        /\ evaluation.score = InOrder[Range(evaluation.cards)].score

\* C21 witness: seven cards given in an order that is not ascending have
\* been evaluated, and a set of five of them scores less than the result.
C21_Witness ==
    /\ evaluation.score # <<>>
    /\ Len(evaluation.cards) = 7
    /\ evaluation.cards # SortedAsc(Range(evaluation.cards))
    /\ \E S \in DOMAIN FiveScores :
          /\ S \subseteq Range(evaluation.cards)
          /\ compareScores(evaluation.score, FiveScores[S]) > 0

\* C22: the action mix computed for a decision sums to 1 and gives
\* probability zero to check when the seat faces a bet, to call when there
\* is nothing to call, and to raise when the seat cannot exceed the current
\* maximum bet.
C22_MixOverLegalActions ==
    ai.pc # "idle" =>
       /\ ai.mix.total > 0
       /\ ai.mix.fold + ai.mix.check + ai.mix.call + ai.mix.raise = ai.mix.total
       /\ ai.input.currentBet > ai.input.playerBet => ai.mix.check = 0
       /\ ai.input.currentBet <= ai.input.playerBet => ai.mix.call = 0
       /\ ai.input.playerBet + ai.input.playerChips <= ai.input.currentBet
             => ai.mix.raise = 0

\* The draws of decide: the sampled action, the sizing and what the request
\* to the model comes to.
Draws(input, personality) ==
    sampleAction(computeActionMix(input, input.quality, PERSONALITY_CONFIG[personality]))
    \X computeRaiseSizing(input, PERSONALITY_CONFIG[personality])
    \X LLMOutcomes

\* The automated seat whose turn it is.
AIActor == Seat(game, game.currentPlayerIndex)

\* The fallback the engine's rules call for: check when the seat's bet meets
\* the maximum bet, else call when there is an amount to call, else fold.
SafeAction(g, p) ==
    IF p.bet >= _getCurrentMaxBet(g) THEN "check"
    ELSE IF Min2(_getCurrentMaxBet(g) - p.bet, p.chips) > 0 THEN "call"
    ELSE "fold"

\* C23: whenever it is the turn of an automated seat and its decision is
\* about to be made, for every draw and every result of the request, the
\* decision decide returns is accepted by handleAction in that state, and a sampled action that fails validation
\* is replaced by check if check is legal, else call if there is an amount to
\* call, else fold.
C23_DecisionAccepted ==
    AITurn(game) /\ ~game.threw /\ ai.pc = "idle" =>
       \E input \in {normalizeInput(game, AIActor.id)} :
       \A d \in Draws(input, ai.personality) :
          \E sampled \in {Tuned(input, d[1], d[2], decideWithLLM(d[3]))} :
          \E decision \in {Decided(input, d[1], d[2], decideWithLLM(d[3]))} :
             /\ handleAction(Begin(game), AIActor.id, decision.action,
                             IF decision.action = "raise" THEN decision.amount ELSE 0).ok
             /\ ~validateAction(sampled, input)
                   => decision = [action |-> SafeAction(game, AIActor), amount |-> NoAmount]

\* A decision is ready whose sampled call failed validation and was replaced
\* by a check.
C23_Witness ==
    ai.pc = "ready" /\ ai.sampledAction = "call" /\ ai.action = "check"

\* What decide returns for the draws of the decision under way when the
\* request to the model comes to outcome.
DecidedWith(outcome) ==
    Decided(ai.input, ai.sampledAction, ai.targetSizing, decideWithLLM(outcome))

\* The request failed.
Failure == [kind |-> "network", amount |-> NoAmount]

\* C24: for the snapshot and the draws of a decision under way, the action
\* returned is the same whatever the request to the model comes to; the
\* amount differs from the one returned after a failure only for a raise,
\* and then lies in the band [min, max] of the raise; and unless the model
\* answered with an amount in that band, action and amount are those
\* returned after a failure.
C24_AdvisoryOnlyTunesRaise ==
    ai.pc \in {"fetch", "body"} =>
       \A outcome \in LLMOutcomes :
          /\ DecidedWith(outcome).action = DecidedWith(Failure).action
          /\ DecidedWith(outcome).amount # DecidedWith(Failure).amount
                => /\ DecidedWith(outcome).action = "raise"
                   /\ ai.sampledAction = "raise"
                   /\ DecidedWith(outcome).amount = outcome.amount
                   /\ outcome.amount >= FindAction(ai.input, "raise")[1].min
                   /\ outcome.amount <= FindAction(ai.input, "raise")[1].max
          /\ (\/ outcome.kind # "parsed"
              \/ outcome.amount = NoAmount
              \/ FindAction(ai.input, "raise") = <<>>
              \/ outcome.amount < FindAction(ai.input, "raise")[1].min
              \/ outcome.amount > FindAction(ai.input, "raise")[1].max)
                => DecidedWith(outcome) = DecidedWith(Failure)

\* A raise is ready whose amount the model tuned, after the model was also
\* free to name amounts under and over the band.
C24_Witness ==
    /\ ai.pc = "ready"
    /\ ai.sampledAction = "raise" /\ ai.action = "raise"
    /\ ai.amount # ai.targetSizing
    /\ FindAction(ai.input, "raise")[1].min > 0
    /\ FindAction(ai.input, "raise")[1].max < MaxTuned

\* C25: the request to the model never blocks the table: while decideWithLLM
\* waits on the network, for the response to its request or for the body of
\* that response, the abort timer of the hard timeout is armed, so that the
\* wait ends and an action of the automated seat is submitted.
C25_NetworkWaitsBounded ==
    ai.pc \in {"fetch", "body"} => ai.timeout

\* The seats of g that are not folded, not all-in and not sitting out and
\* have still to act on the street.
YetToAct(g) == {i \in Indexes(g) : IsActionable(Seat(g, i)) /\ ~Seat(g, i).acted}

\* The betting round the action was made in is over when handleAction
\* returns: the engine has left the street.
RoundEnded(r) == r.g.stage # game.stage

\* C26: after each accepted action, if at most one actionable seat remains,
\* the betting round ends within that handleAction call, also when the one
\* actionable seat has not yet acted.
C26_RoundEndsWithOneActionable ==
    ~game.threw =>
       \A t \in Inputs :
          \E r \in {Try(t)} :
             r.ok /\ Len(getActionablePlayers(r.seen)) <= 1 => RoundEnded(r)

\* C26, amended: after each accepted action, if no actionable seat remains or
\* the only one has already acted, the betting round ends within that
\* handleAction call; an only actionable seat that has not yet acted, with
\* another seat still in the hand, is asked to act on the same street.
C26_RoundEndsWhenNoneIsLeftToAct ==
    ~game.threw =>
       \A t \in Inputs :
          \E r \in {Try(t)} :
             r.ok =>
                /\ Len(getActionablePlayers(r.seen)) <= 1 /\ YetToAct(r.seen) = {}
                      => RoundEnded(r)
                /\ (/\ Len(getActionablePlayers(r.seen)) = 1
                    /\ YetToAct(r.seen) # {}
                    /\ Len(getActivePlayers(r.seen)) >= 2)
                      => /\ ~RoundEnded(r)
                         /\ YetToAct(r.seen) = {r.g.currentPlayerIndex}

\* An accepted action that leaves one actionable seat, which has acted, beside
\* a seat that is all-in, and one that leaves one actionable seat that has
\* still to answer an all-in.
C26_Witness ==
    /\ ~game.threw
    /\ \E t \in Inputs :
          /\ Try(t).ok
          /\ Len(getActionablePlayers(Try(t).seen)) = 1
          /\ YetToAct(Try(t).seen) = {}
          /\ Len(getActivePlayers(Try(t).seen)) >= 2
    /\ \E t \in Inputs :
          /\ Try(t).ok
          /\ Len(getActionablePlayers(Try(t).seen)) = 1
          /\ YetToAct(Try(t).seen) # {}
          /\ Len(getActivePlayers(Try(t).seen)) >= 2

\* The showdown and hand-complete callbacks a call fired, in order.
EndOfHandEvents(g) ==
    SelectSeq(g.events, LAMBDA e : e \in {"onShowdown", "onHandComplete"})

\* The fold of t is accepted and leaves one seat that is neither folded nor
\* sitting out.
FoldLeavesOne(t) ==
    /\ t[2] = "fold"
    /\ Try(t).ok
    /\ Len(getActivePlayers(Try(t).seen)) = 1

\* C27: when a fold leaves exactly one non-folded seat in the hand, within
\* that call the seat receives the entire pot and no other stack changes, the
\* winners list names it alone with no hand, no card is burned or dealt, the
\* stage becomes SHOWDOWN, and onShowdown fires once, then onHandComplete once.
C27_FoldWinTakesThePot ==
    ~game.threw =>
       \A t \in Inputs :
          FoldLeavesOne(t) =>
             \E r \in {Try(t)} :
             \E w \in {getActivePlayers(r.seen)[1]} :
                /\ NumPlayers(r.g) = NumPlayers(game)
                /\ \A i \in Indexes(game) :
                      Seat(r.g, i).chips
                      = Seat(game, i).chips + (IF i = w THEN game.pot ELSE 0)
                /\ r.g.winners = <<[id |-> Seat(game, w).id, amount |-> game.pot]>>
                /\ r.g.communityCards = game.communityCards
                /\ r.g.deck = game.deck
                /\ r.g.stage = "SHOWDOWN"
                /\ EndOfHandEvents(r.g) = <<"onShowdown", "onHandComplete">>
                /\ "onStageChange" \notin {r.g.events[k] : k \in 1..Len(r.g.events)}

\* On a street after the flop, with chips in the pot, a fold leaves one seat
\* in the hand.
C27_Witness ==
    /\ ~game.threw
    /\ game.pot > 0
    /\ \E t \in Inputs : FoldLeavesOne(t)
    /\ Len(game.communityCards) \in {3, 4, 5}

\* The number of streets still to be dealt in a stage of betting.
StreetsLeft(stage) ==
    CASE stage = "PRE_FLOP" -> 3 [] stage = "FLOP" -> 2 [] stage = "TURN" -> 1 [] OTHER -> 0

\* The stage-change, showdown and hand-complete callbacks a call fired, in
\* order.
StageEvents(g) ==
    SelectSeq(g.events,
              LAMBDA e : e \in {"onStageChange", "onShowdown", "onHandComplete"})

\* The action of t is accepted and ends the betting round with at least two
\* seats in the hand and at most one of them able to act.
EndsRoundAllIn(t) ==
    /\ Try(t).ok
    /\ RoundEnded(Try(t))
    /\ Len(getActivePlayers(Try(t).seen)) >= 2
    /\ Len(getActionablePlayers(Try(t).seen)) <= 1

\* C28: when a betting round ends with at least two non-folded seats but at
\* most one actionable seat, the same handleAction call deals the remaining
\* streets in order, one stage-change event and one burned card per street,
\* reaches five community cards, runs the showdown and ends in SHOWDOWN.
C28_RunOutToShowdown ==
    ~game.threw =>
       \A t \in Inputs :
          EndsRoundAllIn(t) =>
             \E r \in {Try(t)} :
                /\ ~r.g.threw
                /\ r.g.stage = "SHOWDOWN"
                /\ Len(r.g.communityCards) = 5
                /\ SubSeq(r.g.communityCards, 1, Len(game.communityCards))
                   = game.communityCards
                /\ Len(r.g.deck)
                   = Len(game.deck) - (5 - Len(game.communityCards))
                     - StreetsLeft(game.stage)
                /\ StageEvents(r.g)
                   = [k \in 1..StreetsLeft(game.stage) |-> "onStageChange"]
                     \o <<"onShowdown", "onHandComplete">>

\* Before the flop an accepted action ends the round with two seats in the
\* hand and at most one able to act: three streets are still to be dealt.
C28_Witness ==
    /\ ~game.threw
    /\ game.stage = "PRE_FLOP"
    /\ \E t \in Inputs : EndsRoundAllIn(t)

\* C29: after an accepted action that does not end the betting round, the
\* current-actor pointer designates the first seat clockwise after the
\* acting seat that is not folded, not all-in, not sitting out and has not
\* acted; and a round that ends with two or more seats in the hand ends only
\* when no such seat exists.
C29_NextToActIsFirstClockwise ==
    ~game.threw =>
       \A t \in Inputs :
          \E r \in {Try(t)} :
             r.ok =>
                /\ ~RoundEnded(r)
                      => /\ YetToAct(r.seen) # {}
                         /\ YetToAct(r.g) = YetToAct(r.seen)
                         /\ r.g.currentPlayerIndex
                            = FirstAfter(r.seen, findIndex(game, t[1]), YetToAct(r.seen))
                /\ RoundEnded(r) /\ Len(getActivePlayers(r.seen)) >= 2
                      => YetToAct(r.seen) = {}

\* An accepted action leaves two seats that have still to act, and the
\* first of them clockwise after the acting seat is not the one of lowest
\* index.
C29_Witness ==
    /\ ~game.threw
    /\ \E t \in Inputs :
          /\ Try(t).ok
          /\ ~RoundEnded(Try(t))
          /\ Cardinality(YetToAct(Try(t).seen)) >= 2
          /\ Try(t).g.currentPlayerIndex # SetMin(YetToAct(Try(t).seen))

\* The step closes a betting round of the hand in progress and opens the
\* next street for betting.
OpensStreet ==
    /\ ~game.threw /\ ~game'.threw
    /\ game.stage \in BettingStages
    /\ game'.stage \in {"FLOP", "TURN", "RIVER"}
    /\ game'.stage # game.stage
    /\ game'.handNumber = game.handNumber

\* The seats that can act in g.
ActionableSeats(g) == {i \in Indexes(g) : IsActionable(Seat(g, i))}

\* C30: each time a betting round completes and a new street opens for
\* betting, every seat's street bet is 0 and its acted flag is false,
\* lastRaiseSize is the big blind, the last-raiser marker is cleared, one
\* card was burned and 3 (flop) or 1 (turn, river) cards were added to the
\* community cards, and the current actor is the first actionable seat
\* clockwise of the dealer.
C30_NewStreetIsReset ==
    [][OpensStreet =>
          \E count \in {IF game'.stage = "FLOP" THEN 3 ELSE 1} :
             /\ \A i \in Indexes(game') :
                   Seat(game', i).bet = 0 /\ ~Seat(game', i).acted
             /\ game'.lastRaiseSize = bigBlind
             /\ game'.lastRaiserIndex = -1
             /\ Len(game'.deck) = Len(game.deck) - 1 - count
             /\ game'.deck = SubSeq(game.deck, 1, Len(game'.deck))
             /\ Len(game'.communityCards) = Len(game.communityCards) + count
             /\ SubSeq(game'.communityCards, 1, Len(game.communityCards))
                = game.communityCards
             /\ \A k \in 1..count :
                   game'.communityCards[Len(game.communityCards) + k]
                   = game.deck[Len(game.deck) - k]
             /\ ActionableSeats(game') # {}
             /\ game'.currentPlayerIndex
                = FirstAfter(game', game'.dealerIndex, ActionableSeats(game'))]_vars

\* The turn has just opened for betting, and the seat that closed the flop
\* is not the seat before the one now asked to act.
C30_Witness ==
    /\ ~game.threw
    /\ game.stage = "TURN"
    /\ Len(game.communityCards) = 4
    /\ \A i \in Indexes(game) : Seat(game, i).bet = 0 /\ ~Seat(game, i).acted
    /\ Cardinality(ActionableSeats(game)) >= 2
    /\ game.currentPlayerIndex = FirstAfter(game, game.dealerIndex, ActionableSeats(game))
    /\ game.lastRaiserIndex = -1

\* Some contribution level of g was reached by no seat that is still in the
\* hand: every seat eligible for its slice has folded.
UnreachedLevel(g) ==
    \E k \in 1..Len(Slices(g)) :
       \A e \in 1..Len(Slices(g)[k].eligible) :
          Seat(g, Slices(g)[k].eligible[e]).folded

\* C31: at showdown, when no seat still in the hand reached some
\* contribution level, the showdown completes without a fault and pays out
\* the whole pot, the slice of that level included.
C31_UnreachedLevelIsPaid ==
    (/\ game.stage = "SHOWDOWN"
     /\ call.op \in {"handleAction", "playerDisconnected"} /\ call.ok
     /\ Len(getActivePlayers(game)) >= 2
     /\ UnreachedLevel(game))
        => /\ ~game.threw
           /\ SumSeq([r \in 1..Len(game.winners) |-> game.winners[r].amount]) = game.pot

\* What the pot loop of the showdown credits to seat i out of one pot of g.
CreditedFrom(g, pot, i) ==
    \* the results of paying this pot alone
    LET paid == PayPot([g |-> g, results |-> <<>>], pot.amount,
                       Winners(Evaluated(g, pot),
                               [e \in 1..Len(Evaluated(g, pot)) |->
                                   ScoreOf(g, Evaluated(g, pot)[e])]))
    IN <<SumSeq([r \in 1..Len(paid.results) |->
                    IF paid.results[r].id = Seat(g, i).id
                    THEN paid.results[r].amount ELSE 0]),
         Seat(paid.g, i).chips - Seat(g, i).chips>>

\* The seats listed as eligible for a pot.
EligibleFor(pot) == {pot.eligible[e] : e \in 1..Len(pot.eligible)}

\* Seat i is eligible for the pot, has not folded, and no eligible seat that
\* has not folded holds a better hand.
HoldsBest(g, pot, i) ==
    /\ i \in EligibleFor(pot) /\ ~Seat(g, i).folded
    /\ \A j \in EligibleFor(pot) :
          ~Seat(g, j).folded => compareScores(ScoreOf(g, i), ScoreOf(g, j)) >= 0

\* C32: for each pot of a showdown, chips are credited only to eligible
\* seats that have not folded and whose hand is maximal among the pot's
\* eligible seats; the shares of the tied winners differ by at most the
\* remainder of the division, and the chips credited from the pot sum to the
\* pot's amount.  The payments reported by the showdown are the sums of these
\* credits.
C32_PotGoesToBestHands ==
    ShowdownDone =>
       \E pots \in {_calculateSidePots(game)} :
          /\ \A k \in 1..Len(pots) :
                \E credit \in {[i \in Indexes(game) |-> CreditedFrom(game, pots[k], i)]} :
                   \E best \in {{i \in Indexes(game) : HoldsBest(game, pots[k], i)}} :
                      /\ best # {}
                      /\ \A i \in Indexes(game) :
                            /\ credit[i][1] = credit[i][2]
                            /\ credit[i][1] >= 0
                            /\ credit[i][1] > 0 => i \in best
                      /\ \A i, j \in best :
                            credit[i][1] - credit[j][1]
                               <= pots[k].amount % Cardinality(best)
                      /\ SumSeq([n \in 1..NumPlayers(game) |-> credit[n - 1][1]])
                            = pots[k].amount
          /\ \A i \in Indexes(game) :
                PaidTo(game, i)
                   = SumSeq([k \in 1..Len(pots) |-> CreditedFrom(game, pots[k], i)[1]])

\* A showdown with a pot that two seats tie for and that does not divide
\* evenly.
C32_Witness ==
    /\ ShowdownDone
    /\ \E k \in 1..Len(_calculateSidePots(game)) :
          /\ Cardinality({i \in Indexes(game) :
                             HoldsBest(game, _calculateSidePots(game)[k], i)}) = 2
          /\ _calculateSidePots(game)[k].amount % 2 = 1

\* The chips of a live pot: the pot while the hand is being bet, nothing
\* once it has been paid or before any hand.
UnpaidPot(g) == IF g.stage \in BettingStages THEN g.pot ELSE 0

\* C33: a hand in progress is never restarted: startHand takes effect only
\* when the stage is WAITING or SHOWDOWN, so that the stacks plus the unpaid
\* pot are the same before and after it.
C33_NoRestartOfALiveHand ==
    [][(~game.threw /\ game'.handNumber # game.handNumber)
          => /\ game.stage \in {"WAITING", "SHOWDOWN"}
             /\ SumChips(game') + UnpaidPot(game') = SumChips(game) + UnpaidPot(game)]_vars

\* C34: every started hand terminates when the current actor always submits
\* an action in the end; in particular the engine never rests in a betting
\* stage in which no seat's action can be accepted.
C34_SomeActionIsAccepted ==
    (~game.threw /\ game.stage \in BettingStages) => \E t \in Inputs : Try(t).ok

\* The accepted action closed the betting round with at least two seats
\* left in the hand: play continues on the next street or at the showdown.
ClosesRound(r) ==
    r.ok /\ RoundEnded(r) /\ Len(getActivePlayers(r.seen)) >= 2

\* C35: whenever a betting round closes and play continues, every seat that
\* is not folded and not all-in has the same street bet, the maximum street
\* bet of the round, also after a short all-in that did not reopen action.
C35_BetsMatchedAtClose ==
    ~game.threw =>
       \A t \in Inputs :
          \E r \in {Try(t)} :
             ClosesRound(r) =>
                \A i \in ActionableSeats(r.seen) :
                   Seat(r.seen, i).bet = _getCurrentMaxBet(r.seen)

\* The enumeration acts lists the action, and for a raise the amount lies in
\* the enumerated range.
Listed(acts, action, amount) ==
    \E k \in 1..Len(acts) :
       /\ acts[k].action = action
       /\ action = "raise" => (acts[k].min <= amount /\ amount <= acts[k].max)

\* C36: for the current seat of a betting stage and every action kind and
\* amount, handleAction accepts the action if and only if _getAvailableActions
\* lists it, for a raise with the amount in the listed range.
C36_EnumerationMatchesHandlers ==
    (InHand /\ game.currentPlayerIndex \in Indexes(game)) =>
       \E p \in {Seat(game, game.currentPlayerIndex)} :
          \E acts \in {_getAvailableActions(game, p)} :
             \A t \in Inputs :
                t[1] = p.id => (Try(t).ok <=> Listed(acts, t[2], t[3]))

\* Every card of g that is somewhere: the hole cards seat by seat, then the
\* community cards, then the deck.
RECURSIVE CardsFrom(_, _)
CardsFrom(g, k) ==
    IF k > Len(g.players) THEN g.communityCards \o g.deck
    ELSE g.players[k].hand \o CardsFrom(g, k + 1)

\* C37: in every state of a hand the community cards number 0 in PRE_FLOP,
\* 3 in FLOP, 4 in TURN and 5 in RIVER, and no card occurs twice among the
\* hole cards of all seats, the community cards and the cards left in the
\* deck.
C37_BoardSizeAndNoCardTwice ==
    InHand =>
       /\ Len(game.communityCards) = CASE game.stage = "PRE_FLOP" -> 0
                                       [] game.stage = "FLOP" -> 3
                                       [] game.stage = "TURN" -> 4
                                       [] OTHER -> 5
       /\ \E cards \in {CardsFrom(game, 1)} :
             \A i, j \in 1..Len(cards) : cards[i] = cards[j] => i = j

\* The river with three seats holding cards: five community cards and six
\* hole cards out of the deck.
C37_Witness ==
    /\ InHand
    /\ game.stage = "RIVER"
    /\ Len(game.communityCards) = 5
    /\ Len(CardsFrom(game, 1)) - Len(game.deck) = 11

\* The step is Room.removePlayer on a seat of a hand that is being bet and
\* goes on being bet.
RemovesDuringBetting ==
    /\ InHand
    /\ call'.op = "removePlayer"
    /\ Len(game'.players) < Len(game.players)
    /\ game'.stage \in BettingStages /\ ~game'.threw

\* C38: removing a seat during a betting stage keeps the turn pointer
\* consistent: afterwards it is within the seat list and designates the seat
\* whose turn it was, or, when that seat is the one removed, a seat that can
\* act.
C38_RemovalKeepsTheTurn ==
    [][RemovesDuringBetting =>
          /\ game'.currentPlayerIndex \in Indexes(game')
          /\ IF /\ game.currentPlayerIndex \in Indexes(game)
                /\ Seat(game, game.currentPlayerIndex).id # call'.id
             THEN Seat(game', game'.currentPlayerIndex).id
                     = Seat(game, game.currentPlayerIndex).id
             ELSE IsActionable(Seat(game', game'.currentPlayerIndex))]_vars

\* C39: an action of an automated seat is applied to the engine only in the
\* turn for which it was decided: a decision taken in an earlier hand is
\* never accepted by handleAction, as itself or as the forced fold, in a
\* later hand.
C39_DecisionAppliedInItsTurn ==
    [][(ai.pc = "ready" /\ ai'.pc = "idle" /\ call'.ok)
          => ai.hand = game.handNumber]_vars

\* What a seat that contributed total can be matched for: from every seat,
\* its contribution up to total.
Matched(g, total) ==
    SumSeq([k \in 1..Len(g.players) |-> Min2(g.players[k].totalBet, total)])

\* C40: at a showdown no seat receives more than what it could match: the
\* chips paid to a seat that contributed T are at most the sum over all
\* seats of min(totalBet, T).
C40_NoWinAboveTheMatch ==
    ShowdownDone =>
       \A i \in Indexes(game) :
          PaidTo(game, i) <= Matched(game, Seat(game, i).totalBet)

\* A showdown won by a seat that was all-in for less than another seat in
\* the hand put in: it is paid all it could match, and chips are left for
\* the others.
C40_Witness ==
    /\ ShowdownDone
    /\ \E i, j \in Indexes(game) :
          /\ ~Seat(game, i).folded /\ ~Seat(game, j).folded
          /\ Seat(game, i).totalBet < Seat(game, j).totalBet
          /\ PaidTo(game, i) = Matched(game, Seat(game, i).totalBet)
          /\ PaidTo(game, i) < game.pot

====
